---- MODULE Spec2Model ----
(***************************************************************************)
(* A state-machine model of the reader-app client: the flipbook engine of  *)
(* reader.js (pagination, page flips, position timers), the highlight      *)
(* manager appended to reader.js (XPath anchors and <mark> wrapping over a *)
(* DOM tree), the bookmarks and their local mirror, the narration engine  *)
(* of audio-reader.js, and the deferred delete of library.js with the      *)
(* toast of toast.js.                                                      *)
(*                                                                         *)
(* One set of variables and these specifications:                          *)
(*   Spec / FairSpec  the flipbook engine                                  *)
(*   SpecHL           the highlight manager over an HTML document          *)
(*   SpecForeign      the highlight manager over a document with SVG       *)
(*   SpecAudio        the narration engine                                 *)
(*   SpecSwap         narration across changes of the document             *)
(*   SpecSave / FairSave  the debounced position saves and the final flush *)
(*   SpecMirror       highlights and bookmarks against local storage       *)
(*   SpecBookmarks    bookmarks of a document in and out of the library    *)
(*   SpecToggle       bookmarks on the pages of one document               *)
(*   SpecIngest       files handed to the reader: PDF, EPUB, text          *)
(*   SpecLinks        internal links of an EPUB                            *)
(*   SpecResize       the resize debounce and the font handlers            *)
(*   SpecText         narration of text files                              *)
(*   SpecSpans        sentence spans of the narration                      *)
(*   SpecLibrary      removal and undo in the library, with the toast      *)
(*   SpecFont         font sizes restored from the library and the browser *)
(*   SpecPlay / FairPlay  one playback from play to the last sentence      *)
(*   SpecInline       narration over a document with inline elements       *)
(*   SpecReopen       the reader left and opened again                     *)
(*   SpecPatch        position timers across changes of the document       *)
(*   SpecSaves        save and unsave answered after the document changed  *)
(*   SpecPick         colour picks answered after the selection changed    *)
(*   SpecLoads        highlight lists answered after the article changed   *)
(***************************************************************************)
EXTENDS Integers, Sequences, FiniteSets, TLC

VARIABLES
    \* ---- reader.js state (lines 285-321)
    currentPage, totalPages, isFlipping, fontSize,
    currentArticleId, currentContentHtml, currentHistoryEntryId,
    positionDirty, positionTimer, historyPositionTimer, resizeTimeout, resizeTimers,
    \* ---- the browser around reader.js
    \* (resizeTimers: the times at which the pending setTimeout(paginate, 150)
    \* timers are due, in the order they were set; resizeTimeout tells whether
    \* the handle kept in resizeTimeout is that of a pending timer, the last set)
    flipTimers,      \* pending setTimeout(..., 530) release timers of flipTo
    rafQueue,        \* callbacks registered with requestAnimationFrame
    readerHidden,    \* #readerView carries class "hidden"
    contentCols,     \* columns the content flows into under the current layout
    histInFlight,    \* documents whose POST /api/history response is due
    patchInFlight,   \* PATCH .../position requests whose response is due
    \* ---- highlight manager state (reader.js lines 1753-1760) and its DOM
    dom, highlights, pendingRange, hlArticleId, hlStore, nextHlId,
    \* ---- audio-reader.js state (lines 12-19, 120-121) and the speech engine
    isPlaying, isPaused, sentences, currentSentenceIndex, sentenceRangeData,
    contentElement, speedIndex,
    synthQueue,      \* utterances handed to speechSynthesis.speak, head is spoken
    synthPaused,     \* paused state of the speechSynthesis instance
    pendingEnds,     \* sentence indexes of the end events still to be delivered
    highlightElements, \* the sentence whose active-sentence mark is in the document
    \* ---- observation of the run (not program state)
    \* ---- bookmarks (reader.js line 324) and their local mirror
    currentBookmarks,
    bmStore,         \* the reader-bookmarks-* items of localStorage
    bmWritten,       \* history: per document, the list its last toggle wrote
    now,             \* Date.now()
    \* ---- the access token cached for beforeunload (reader.js line 298)
    cachedAccessToken,
    tokenRefreshing, \* a refreshCachedToken() awaits getSession()
    \* ---- library.js (articles, deleteTimer, pendingDeleteId), the server
    \* and toast.js (lines 14-18)
    articles,        \* ids of the articles in the local array
    deleteTimer,     \* deleteTimer holds a timer handle (is not null)
    pendingDeleteId,
    deleteTimers,    \* the pending setTimeout(..., 5000) timers of removeArticle
    deleted,         \* ids for which DELETE /api/articles/<id> was sent
    undoCallback, toastTimer, isHovering, remainingTime, pauseTimestamp,
    \* ---- calls suspended at an await on the server
    saveInFlight,    \* handleSave calls whose DELETE / POST /api/articles is unanswered
    hlLoads,         \* loadHighlights calls whose GET .../highlights is unanswered
    hlSaves,         \* handleColorClick calls awaiting saveHighlight, oldest first
    lastOp,          \* the handler that ran last, with its argument
    flipTarget       \* target page of the accepted flipTo that is in flight

readerVars == <<currentPage, totalPages, isFlipping, fontSize,
                currentArticleId, currentContentHtml, currentHistoryEntryId,
                positionDirty, positionTimer, historyPositionTimer, resizeTimeout, resizeTimers,
                flipTimers, rafQueue, readerHidden, contentCols,
                histInFlight, patchInFlight, flipTarget>>
hlVars == <<dom, highlights, pendingRange, hlArticleId, hlStore, nextHlId>>
audioVars == <<isPlaying, isPaused, sentences, currentSentenceIndex, sentenceRangeData,
               contentElement, speedIndex, synthQueue, synthPaused, pendingEnds,
               highlightElements>>
bmVars == <<currentBookmarks, bmStore, bmWritten, now>>
tokenVars == <<cachedAccessToken, tokenRefreshing>>
toastVars == <<undoCallback, toastTimer, isHovering, remainingTime, pauseTimestamp>>
flightVars == <<saveInFlight, hlLoads, hlSaves>>
libVars == <<articles, deleteTimer, pendingDeleteId, deleteTimers, deleted, toastVars>>
vars == <<readerVars, hlVars, audioVars, bmVars, tokenVars, flightVars, libVars, lastOp>>

Max(a, b) == IF a >= b THEN a ELSE b
Min(a, b) == IF a <= b THEN a ELSE b

(***************************************************************************)
(* Bounds of the model.                                                    *)
(***************************************************************************)
MaxCols == 2         \* the content flows into at most this many columns
MaxRaf == 2          \* paginate callbacks font changes register between two frames
FontRange == 1       \* font-size steps explored on either side of the default
MaxPatch == 1        \* position PATCH requests awaiting their response
ViewportW == 792     \* width of .flipbook-viewport when it is laid out
MaxNow == 2          \* clock ticks explored
MaxHighlights == 2   \* highlights created in one run
MaxLen == 3          \* characters of a generated text file

(***************************************************************************)
(* Program constants of reader.js.                                         *)
(***************************************************************************)
PadLeft == 56
PadRight == 56
ColumnGap == 120
MinFontSize == 14
MaxFontSize == 36
FontStep == 2
DefaultFontSize == 20

OtherOp == [op |-> "other", arg |-> 0]   \* lastOp of a handler that is not a flip request
NoFlip == -1                    \* flipTarget when no accepted flip is in flight
NoId == 0                       \* null article / history-entry id
Contents == {1, 2, 3}            \* the documents that can be loaded
Colors == {"yellow"}             \* data-color of the popup button picked
FontOptions == {0, 18}          \* options.fontSize of loadArticle, 0 = absent
PageOptions == {0, 1, 2, MaxCols + 1}   \* options.currentPage (1-based), 0 = absent

(***************************************************************************)
(* THE DOCUMENT TREE UNDER #flipContent                                    *)
(*                                                                         *)
(* A node is a record; text is a sequence of characters.  A node of a tree *)
(* is named by its path, the child indices that lead to it from the        *)
(* content root; a boundary point is a path and an offset, a range two     *)
(* boundary points.                                                        *)
(***************************************************************************)
TextNode(s) ==
    [nodeType |-> 3, nodeName |-> "#text", data |-> s, hid |-> 0, color |-> "", kids |-> <<>>,
     ref |-> 0]
Element(name, kids) ==
    [nodeType |-> 1, nodeName |-> name, data |-> <<>>, hid |-> 0, color |-> "", kids |-> kids,
     ref |-> 0]
\* <mark class="user-highlight" data-highlight-id=id data-color=color>
MarkElement(id, color, kids) ==
    [nodeType |-> 1, nodeName |-> "MARK", data |-> <<>>, hid |-> id, color |-> color, kids |-> kids,
     ref |-> 0]

NullNode == <<0>>       \* the path that stands for null
NoRange == [sc |-> NullNode, so |-> 0, ec |-> NullNode, eo |-> 0]
EmptyContent == Element("DIV", <<>>)

\* Text files: every text of up to MaxLen characters over the alphabet, and
\* the sentence example "Hello world. How are you? I'm fine!".  The html the
\* file handler makes of a text is numbered: 9 is the example, 10 + n the
\* text whose characters are the base-5 digits of n, 0 the empty string.
\* In the text of the example a word is one symbol: the code that reads
\* text tells '.', '!', '?' and white space from the rest, and no more.
Alphabet == <<"a", ".", " ", "!">>
Example ==
    << "Hello", " ", "world", ".", " ", "How", " ", "are", " ", "you", "?", " ",
       "I'm", " ", "fine", "!" >>
ExampleChars ==
    << "H", "e", "l", "l", "o", " ", "w", "o", "r", "l", "d", ".", " ",
       "H", "o", "w", " ", "a", "r", "e", " ", "y", "o", "u", "?", " ",
       "I", "'", "m", " ", "f", "i", "n", "e", "!" >>
Texts ==
    UNION { [1 .. n -> { Alphabet[i] : i \in DOMAIN Alphabet }] : n \in 1 .. MaxLen }
RECURSIVE textOfCode(_)
textOfCode(n) ==
    IF n = 0 THEN <<>> ELSE <<Alphabet[n % 5]>> \o textOfCode(n \div 5)
RECURSIVE codeOfText(_)
codeOfText(t) ==
    IF t = <<>> THEN 0
    ELSE (CHOOSE i \in DOMAIN Alphabet : Alphabet[i] = Head(t)) + 5 * codeOfText(Tail(t))
TextOf(c) == IF c = 9 THEN Example ELSE textOfCode(c - 10)

\* the documents handed to loadArticle as contentHtml, parsed by innerHTML:
\*   1  <p>abc<em>d</em></p>
\*   2  <svg><text>b</text></svg>
\*   3  <p>a. b.<em>c</em></p>
\*   7  <p>a<em>b</em>c.</p>
\*   8  <p><em>a</em> <em>b.</em> c.</p>
\* Elements of the HTML namespace report an upper-case nodeName, elements the
\* parser puts in the SVG namespace keep their lower-case name.
ParseHtml(c) ==
    CASE c = 1 -> Element("DIV", << Element("P", << TextNode(<<"a", "b", "c">>),
                                                    Element("EM", << TextNode(<<"d">>) >>) >>) >>)
      [] c = 2 -> Element("DIV", << Element("svg", << Element("text", << TextNode(<<"b">>) >>) >>) >>)
      [] c = 3 -> Element("DIV", << Element("P", << TextNode(<<"a", ".", " ", "b", ".">>),
                                                    Element("EM", << TextNode(<<"c">>) >>) >>) >>)
      [] c = 7 -> Element("DIV", << Element("P", << TextNode(<<"a">>),
                                                    Element("EM", << TextNode(<<"b">>) >>),
                                                    TextNode(<<"c", ".">>) >>) >>)
      [] c = 8 -> Element("DIV", << Element("P", << Element("EM", << TextNode(<<"a">>) >>),
                                                    TextNode(<<" ">>),
                                                    Element("EM", << TextNode(<<"b", ".">>) >>),
                                                    TextNode(<<" ", "c", ".">>) >>) >>)
      [] c >= 9 -> Element("DIV", << Element("P", << TextNode(TextOf(c)) >>) >>)
      [] OTHER -> EmptyContent

\* String.prototype.toLowerCase / toUpperCase on the node names that occur
toLowerCase(s) ==
    CASE s = "P" -> "p" [] s = "EM" -> "em" [] s = "MARK" -> "mark" [] s = "DIV" -> "div"
      [] OTHER -> s
toUpperCase(s) ==
    CASE s = "p" -> "P" [] s = "em" -> "EM" [] s = "mark" -> "MARK" [] s = "div" -> "DIV"
      [] s = "svg" -> "SVG" [] s = "text" -> "TEXT" [] s = "#text" -> "#TEXT"
      [] OTHER -> s

Front(p) == SubSeq(p, 1, Len(p) - 1)

RECURSIVE NodeAt(_, _)
NodeAt(n, p) == IF p = <<>> THEN n ELSE NodeAt(n.kids[Head(p)], Tail(p))

RECURSIVE Paths(_)
Paths(n) ==
    {<<>>} \cup UNION { { <<i>> \o q : q \in Paths(n.kids[i]) } : i \in 1 .. Len(n.kids) }

\* Node length of the DOM standard: characters of a text node, children of an element
NodeLength(n) == IF n.nodeType = 3 THEN Len(n.data) ELSE Len(n.kids)

\* replace the child at path p by the nodes of the sequence new
RECURSIVE Splice(_, _, _)
Splice(n, p, new) ==
    IF Len(p) = 1
    THEN [n EXCEPT !.kids = SubSeq(@, 1, p[1] - 1) \o new \o SubSeq(@, p[1] + 1, Len(@))]
    ELSE [n EXCEPT !.kids[p[1]] = Splice(@, Tail(p), new)]

\* A boundary point as a sequence whose lexicographic order is tree order:
\* child i is 2i, the gap after o children (or characters) is 2o+1.
pt(p, o) == [i \in 1 .. Len(p) + 1 |-> IF i <= Len(p) THEN 2 * p[i] ELSE 2 * o + 1]
Before(a, b) ==
    \E k \in 1 .. Min(Len(a), Len(b)) : a[k] < b[k] /\ \A j \in 1 .. k - 1 : a[j] = b[j]
PointLE(a, b) == a = b \/ Before(a, b)

Points(n) == UNION { { <<p, o>> : o \in 0 .. NodeLength(NodeAt(n, p)) } : p \in Paths(n) }
\* the ranges between the boundary points of pts: start not after end
RangesOver(pts) ==
    { [sc |-> x[1][1], so |-> x[1][2], ec |-> x[2][1], eo |-> x[2][2]] :
        x \in { y \in pts \X pts :
                  PointLE(pt(y[1][1], y[1][2]), pt(y[2][1], y[2][2])) } }
\* every Range the document admits
Ranges(n) == RangesOver(Points(n))
\* the selections made in the model: boundary points inside text, or at the
\* start of an element (where a triple click or a drag past a block ends)
Selections(n) ==
    RangesOver({ x \in Points(n) : NodeAt(n, x[1]).nodeType = 3 \/ x[2] = 0 })

\* the selections of whole words: from the start of a text node to the end
\* of a text node
WordSelections(n) ==
    { r \in Selections(n) :
        /\ NodeAt(n, r.sc).nodeType = 3 /\ r.so = 0
        /\ NodeAt(n, r.ec).nodeType = 3 /\ r.eo = Len(NodeAt(n, r.ec).data) }

\* the text nodes under the node at path p, in document order (a TreeWalker
\* with NodeFilter.SHOW_TEXT rooted there)
RECURSIVE textNodesUnder(_, _)
RECURSIVE textNodesFrom(_, _, _)
textNodesUnder(n, p) ==
    IF NodeAt(n, p).nodeType = 3 THEN <<p>> ELSE textNodesFrom(n, p, 1)
textNodesFrom(n, p, i) ==
    IF i > Len(NodeAt(n, p).kids) THEN <<>>
    ELSE textNodesUnder(n, Append(p, i)) \o textNodesFrom(n, p, i + 1)

\* the characters of the text node at path q that lie inside range r
selectedPart(n, r, q) ==
    LET d == NodeAt(n, q).data
        idx == { i \in 1 .. Len(d) : /\ PointLE(pt(r.sc, r.so), pt(q, i - 1))
                                     /\ PointLE(pt(q, i), pt(r.ec, r.eo)) }
    IN  IF idx = {} THEN <<>>
        ELSE SubSeq(d, CHOOSE i \in idx : \A j \in idx : i <= j,
                       CHOOSE i \in idx : \A j \in idx : i >= j)

\* Range.prototype.toString: the selected characters of the text nodes
RECURSIVE concatParts(_, _, _)
concatParts(n, r, list) ==
    IF list = <<>> THEN <<>>
    ELSE selectedPart(n, r, Head(list)) \o concatParts(n, r, Tail(list))
rangeToString(n, r) == concatParts(n, r, textNodesUnder(n, <<>>))

\* String.prototype.trim() leaves nothing
isBlank(s) == \A i \in 1 .. Len(s) : s[i] = " "

\* Node.prototype.normalize: empty text nodes go, adjacent text nodes merge
RECURSIVE normalize(_)
RECURSIVE normalizeKids(_)
normalizeKids(ks) ==
    IF ks = <<>> THEN <<>>
    ELSE LET k == Head(ks)
             rest == normalizeKids(Tail(ks))
         IN  IF k.nodeType # 3 THEN <<normalize(k)>> \o rest
             ELSE IF k.data = <<>> THEN rest
             ELSE IF rest # <<>> /\ Head(rest).nodeType = 3
                  THEN <<[k EXCEPT !.data = @ \o Head(rest).data]>> \o Tail(rest)
                  ELSE <<k>> \o rest
normalize(n) == IF n.nodeType = 3 THEN n ELSE [n EXCEPT !.kids = normalizeKids(@)]

(***************************************************************************)
(* HIGHLIGHT MANAGER: anchors                                              *)
(*                                                                         *)
(* An XPath string '/p[1]/#text[2]' is the sequence of its parts, a part   *)
(* the name and the ordinal it was formatted from: split('/') and the      *)
(* pattern ^(.+)\[(\d+)\]$ with parseInt recover exactly the name and the  *)
(* decimal ordinal that getXPath joined; '' is the empty sequence.         *)
(***************************************************************************)
getXPath(n, p) ==
    [j \in 1 .. Len(p) |->
        LET parent == NodeAt(n, SubSeq(p, 1, j - 1))
            current == parent.kids[p[j]]
            index == 1 + Cardinality({ s \in 1 .. p[j] - 1 :
                                         /\ parent.kids[s].nodeType = current.nodeType
                                         /\ parent.kids[s].nodeName = current.nodeName })
        IN  [name |-> toLowerCase(current.nodeName), index |-> index]]

\* the path of the node the parts lead to from the node at path current, or NullNode
RECURSIVE resolveFrom(_, _, _)
resolveFrom(n, current, parts) ==
    IF parts = <<>> THEN current
    ELSE LET nodeName == toUpperCase(Head(parts).name)
             targetIndex == Head(parts).index
             childNodes == NodeAt(n, current).kids
             matching == { i \in 1 .. Len(childNodes) :
                             \/ childNodes[i].nodeName = nodeName
                             \/ (childNodes[i].nodeType = 3 /\ nodeName = "#TEXT") }
             found == { i \in matching :
                          Cardinality({ j \in matching : j <= i }) = targetIndex }
         IN  IF found = {} THEN NullNode
             ELSE resolveFrom(n, Append(current, CHOOSE i \in found : TRUE), Tail(parts))
resolveXPath(n, xpath) == resolveFrom(n, <<>>, xpath)

serializeRange(n, range) ==
    [start_xpath |-> getXPath(n, range.sc), start_offset |-> range.so,
     end_xpath |-> getXPath(n, range.ec), end_offset |-> range.eo,
     selected_text |-> rangeToString(n, range)]

\* setStart / setEnd throw when the offset exceeds the node's length; setEnd
\* before the start collapses the range to the end point
deserializeRange(n, data) ==
    LET startNode == resolveXPath(n, data.start_xpath)
        endNode == resolveXPath(n, data.end_xpath)
    IN  IF startNode = NullNode \/ endNode = NullNode THEN NoRange
        ELSE IF \/ data.start_offset > NodeLength(NodeAt(n, startNode))
                \/ data.end_offset > NodeLength(NodeAt(n, endNode)) THEN NoRange
        ELSE IF Before(pt(endNode, data.end_offset), pt(startNode, data.start_offset))
             THEN [sc |-> endNode, so |-> data.end_offset,
                   ec |-> endNode, eo |-> data.end_offset]
             ELSE [sc |-> startNode, so |-> data.start_offset,
                   ec |-> endNode, eo |-> data.end_offset]

(***************************************************************************)
(* HIGHLIGHT MANAGER: marks                                                *)
(***************************************************************************)
RECURSIVE commonPrefix(_, _)
commonPrefix(a, b) ==
    IF a = <<>> \/ b = <<>> THEN <<>>
    ELSE IF Head(a) # Head(b) THEN <<>>
    ELSE <<Head(a)>> \o commonPrefix(Tail(a), Tail(b))
commonAncestorContainer(range) == commonPrefix(range.sc, range.ec)

\* the loop over the TreeWalker: text nodes from the start container on, up
\* to the end container when the walk meets it
RECURSIVE collectTextNodes(_, _, _)
collectTextNodes(list, range, inRange) ==
    IF list = <<>> THEN <<>>
    ELSE LET node == Head(list)
             nowIn == inRange \/ node = range.sc
             here == IF nowIn THEN <<node>> ELSE <<>>
         IN  IF node = range.ec THEN here
             ELSE here \o collectTextNodes(Tail(list), range, nowIn)

\* the mark around one text node: splitText, insertBefore, appendChild
wrapTextNode(n, q, start, end, color, id) ==
    LET textNode == NodeAt(n, q)
        d == textNode.data
        rest == SubSeq(d, start + 1, Len(d))
    IN  IF start > 0
        THEN IF end - start < Len(rest)
             THEN Splice(n, q, << [textNode EXCEPT !.data = SubSeq(d, 1, start)],
                                  MarkElement(id, color,
                                      << TextNode(SubSeq(rest, 1, end - start)) >>),
                                  TextNode(SubSeq(rest, end - start + 1, Len(rest))) >>)
             ELSE Splice(n, q, << [textNode EXCEPT !.data = SubSeq(d, 1, start)],
                                  MarkElement(id, color, << TextNode(rest) >>) >>)
        ELSE IF end < Len(d)
        THEN Splice(n, q, << MarkElement(id, color,
                                 << [textNode EXCEPT !.data = SubSeq(d, 1, end)] >>),
                             TextNode(SubSeq(d, end + 1, Len(d))) >>)
        ELSE Splice(n, q, << MarkElement(id, color, << textNode >>) >>)

\* the second loop.  Each pass rewrites one collected text node in place, so
\* the passes are independent; taking the list from its end keeps the paths
\* of the nodes still to be wrapped valid.
RECURSIVE wrapAll(_, _, _, _, _)
wrapAll(n, list, range, color, id) ==
    IF list = <<>> THEN n
    ELSE LET q == list[Len(list)]
             start == IF q = range.sc THEN range.so ELSE 0
             end == IF q = range.ec THEN range.eo ELSE Len(NodeAt(n, q).data)
         IN  wrapAll(wrapTextNode(n, q, start, end, color, id), Front(list), range, color, id)

applyHighlightMarks(n, range, color, id) ==
    IF range = NoRange THEN n
    ELSE LET ca == commonAncestorContainer(range)
             walkerRoot == IF NodeAt(n, ca).nodeType = 3 THEN Front(ca) ELSE ca
             walked == collectTextNodes(textNodesUnder(n, walkerRoot), range, FALSE)
             textNodes == IF walked = <<>> /\ NodeAt(n, range.sc).nodeType = 3
                          THEN <<range.sc>> ELSE walked
         IN  wrapAll(n, textNodes, range, color, id)

\* mark.user-highlight, with data-highlight-id = id when id is given (id # 0)
isUserMark(k, id) == k.nodeName = "MARK" /\ k.hid # 0 /\ (id = 0 \/ k.hid = id)

\* every matching mark below n gives way to its children; with perParent, the
\* parent of each removed mark is normalized (parent.normalize())
RECURSIVE unwrapMarks(_, _, _)
RECURSIVE unwrapKids(_, _, _)
unwrapKids(ks, id, perParent) ==
    IF ks = <<>> THEN <<>>
    ELSE LET k == unwrapMarks(Head(ks), id, perParent)
         IN  (IF isUserMark(Head(ks), id) THEN k.kids ELSE <<k>>)
                \o unwrapKids(Tail(ks), id, perParent)
unwrapMarks(n, id, perParent) ==
    IF n.nodeType = 3 THEN n
    ELSE LET touched == \E i \in 1 .. Len(n.kids) : isUserMark(n.kids[i], id)
             bare == [n EXCEPT !.kids = unwrapKids(@, id, perParent)]
         IN  IF perParent /\ touched THEN normalize(bare) ELSE bare

removeHighlightMarks(n, highlightId) == unwrapMarks(n, highlightId, TRUE)

\* flipContent.querySelectorAll('mark.user-highlight[data-highlight-id=id]'),
\* all user marks when id = 0: the marks in document order
RECURSIVE marksOf(_, _)
RECURSIVE marksIn(_, _)
marksIn(ks, id) == IF ks = <<>> THEN <<>> ELSE marksOf(Head(ks), id) \o marksIn(Tail(ks), id)
marksOf(n, id) == (IF isUserMark(n, id) THEN <<n>> ELSE <<>>) \o marksIn(n.kids, id)

RECURSIVE applyEach(_, _)
applyEach(n, hls) ==
    IF hls = <<>> THEN n
    ELSE LET hl == Head(hls)
             range == deserializeRange(n, hl)
         IN  applyEach(applyHighlightMarks(n, range, hl.color, hl.id), Tail(hls))

\* the re-render without its first half: marks are applied over the marks
\* already there
renderAllHighlights_noStrip(n, hls) == applyEach(n, hls)

renderAllHighlights(n, hls) == applyEach(normalize(unwrapMarks(n, 0, FALSE)), hls)

(***************************************************************************)
(* FLIPBOOK ENGINE                                                         *)
(***************************************************************************)
\* viewport.offsetWidth: 0 while the reader view is display:none
offsetWidth == IF readerHidden THEN 0 ELSE ViewportW

\* flipContent.scrollWidth after the layout flush: every column is
\* actualColumnWidth wide, columns are ColumnGap apart, plus the paddings
scrollWidth ==
    IF readerHidden THEN 0
    ELSE IF contentCols = 0 THEN ViewportW
    ELSE contentCols * (ViewportW - PadLeft - PadRight)
         + (contentCols - 1) * ColumnGap + PadLeft + PadRight

\* Math.round(a / b) for a >= 0, b > 0
Round(a, b) == (2 * a + b) \div (2 * b)

\* paginate(): the page state it leaves, from the page it finds and the
\* measured viewport width and scroll width
paginate_noClamp(cp, pageWidth, scrollW) ==
    LET actualColumnWidth == pageWidth - PadLeft - PadRight
        stepSize == actualColumnWidth + ColumnGap
    IN  [currentPage |-> cp, totalPages |-> Max(1, Round(scrollW, stepSize))]

paginate(cp, pageWidth, scrollW) ==
    LET actualColumnWidth == pageWidth - PadLeft - PadRight
        stepSize == actualColumnWidth + ColumnGap
        tp == Max(1, Round(scrollW, stepSize))
        c1 == IF cp >= tp THEN tp - 1 ELSE cp
        c2 == IF c1 < 0 THEN 0 ELSE c1
    IN  [currentPage |-> c2, totalPages |-> tp]

\* the page restore of loadArticle's inner animation-frame callback
restorePage(pg, optPage) ==
    IF optPage # 0 /\ optPage > 1
    THEN [pg EXCEPT !.currentPage = Min(optPage - 1, pg.totalPages - 1)]
    ELSE pg

\* Animation-frame callbacks
CbPaginate == [k |-> "paginate", page |-> 0]
CbShowOuter == [k |-> "showReader", page |-> 0]
CbLoadOuter(p) == [k |-> "loadOuter", page |-> p]
CbLoadInner(p) == [k |-> "loadInner", page |-> p]

\* One animation frame: the callbacks registered before it run in order;
\* what they register runs in the next frame.  st.pg is the page state,
\* st.next the callbacks for the next frame, st.logs the logToHistory calls.
RECURSIVE runCallbacks(_, _)
runCallbacks(q, st) ==
    IF q = <<>> THEN st
    ELSE LET cb == Head(q)
             pgd == paginate(st.pg.currentPage, offsetWidth, scrollWidth)
         IN runCallbacks(Tail(q),
              CASE cb.k = "paginate" -> [st EXCEPT !.pg = pgd]
                [] cb.k = "showReader" -> [st EXCEPT !.next = Append(@, CbPaginate)]
                [] cb.k = "loadOuter" -> [st EXCEPT !.next = Append(@, CbLoadInner(cb.page))]
                [] cb.k = "loadInner" ->
                     [st EXCEPT !.pg = restorePage(pgd, cb.page), !.logs = @ + 1])

\* onPageFlip(): arm the debounced position saves
onPageFlip_noTimer ==
    /\ IF currentArticleId # NoId
       THEN positionDirty' = TRUE /\ UNCHANGED positionTimer
       ELSE UNCHANGED <<positionDirty, positionTimer>>
    /\ IF currentHistoryEntryId # NoId
       THEN historyPositionTimer' = TRUE
       ELSE UNCHANGED historyPositionTimer

onPageFlip ==
    /\ IF currentArticleId # NoId
       THEN positionDirty' = TRUE /\ positionTimer' = TRUE
       ELSE UNCHANGED <<positionDirty, positionTimer>>
    /\ IF currentHistoryEntryId # NoId
       THEN historyPositionTimer' = TRUE
       ELSE UNCHANGED historyPositionTimer

\* the three early returns of flipTo
flipRejected_noSamePage(page) ==
    isFlipping \/ page < 0 \/ page >= totalPages

flipRejected_noInFlight(page) ==
    page < 0 \/ page >= totalPages \/ page = currentPage

flipRejected(page) ==
    isFlipping \/ page < 0 \/ page >= totalPages \/ page = currentPage

flipFrame == <<currentPage, isFlipping, flipTimers, positionDirty, positionTimer,
               historyPositionTimer, flipTarget>>

flipTo(page) ==
    IF flipRejected(page)
    THEN UNCHANGED flipFrame
    ELSE /\ isFlipping' = TRUE
         /\ currentPage' = page
         /\ flipTarget' = page
         /\ onPageFlip
         /\ flipTimers' = flipTimers + 1

readerRest == <<totalPages, fontSize, currentArticleId, currentContentHtml,
                currentHistoryEntryId, resizeTimeout, resizeTimers, rafQueue, readerHidden,
                contentCols, histInFlight, patchInFlight>>

\* a flip request: click zone, page curl, key or swipe
FlipRequest(page) ==
    /\ ~readerHidden
    /\ flipTo(page)
    /\ lastOp' = [op |-> "flipTo", arg |-> page]
    /\ UNCHANGED <<readerRest, hlVars, audioVars, bmVars, tokenVars, flightVars, libVars>>

FlipNext == FlipRequest(currentPage + 1)
FlipPrev == FlipRequest(currentPage - 1)
KeyHome == FlipRequest(0)
KeyEnd == FlipRequest(totalPages - 1)

\* navigateToElement(el): the page of el.offsetLeft, clamped
navigateTarget(offsetLeft) ==
    LET actualColumnWidth == offsetWidth - PadLeft - PadRight
        stepSize == actualColumnWidth + ColumnGap
        page == offsetLeft \div stepSize
    IN  Max(0, Min(page, totalPages - 1))

\* offsetLeft of an element of the content: the left edge of its column
OffsetLefts == { PadLeft + c * (ViewportW - PadLeft - PadRight + ColumnGap) : c \in 0 .. MaxCols }

InternalLink ==
    /\ ~readerHidden
    /\ \E ol \in OffsetLefts :
         /\ flipTo(navigateTarget(ol))
         /\ lastOp' = [op |-> "flipTo", arg |-> navigateTarget(ol)]
    /\ UNCHANGED <<readerRest, hlVars, audioVars, bmVars, tokenVars, flightVars, libVars>>

\* String.prototype.substring(from, to)
substring(str, from, to) == SubSeq(str, from + 1, Min(to, Len(str)))

\* ---- handleInternalLink over the elements of an EPUB
\* Strings are sequences of tokens: a token is a scheme prefix, "/", "#" or
\* a run of the other characters.  The elements that carry an id or a
\* data-epub-src, in document order: inContent = flipContent.contains(el),
\* chapter = class epub-chapter, col = the column the element starts in
NoEl == 0
Elements ==
    << [id |-> <<"pageNum">>, inContent |-> FALSE, chapter |-> FALSE, src |-> <<>>, col |-> 0],
       [id |-> <<>>, inContent |-> TRUE, chapter |-> TRUE,
        src |-> <<"OEBPS", "/", "b.xhtml">>, col |-> 0],
       [id |-> <<"s1">>, inContent |-> TRUE, chapter |-> FALSE, src |-> <<>>, col |-> 0],
       [id |-> <<>>, inContent |-> TRUE, chapter |-> TRUE, src |-> <<"a.xhtml">>, col |-> 1],
       [id |-> <<>>, inContent |-> TRUE, chapter |-> TRUE,
        src |-> <<"alt", "/", "b.xhtml">>, col |-> 1] >>

\* the href attributes of the links that are clicked
Hrefs ==
    { <<>>, <<"#">>, <<"#", "s1">>, <<"#", "pageNum">>, <<"#", "none">>,
      <<"a.xhtml">>, <<"a.xhtml", "#", "s1">>, <<"a.xhtml", "#", "none">>,
      <<"b.xhtml">>, <<"..", "/", "b.xhtml">>, <<"alt", "/", "b.xhtml">>,
      <<"alt", "/", "b.xhtml", "#", "pageNum">>, <<"c.xhtml">>,
      <<"http://", "a.xhtml">>, <<"https://", "b.xhtml", "#", "s1">>,
      <<"mailto:", "a.xhtml">> }

\* el.offsetLeft: the left edge of the column the element starts in, the
\* last column when the layout has fewer columns
offsetLeftOf(el) ==
    PadLeft + Min(Elements[el].col, Max(contentCols, 1) - 1)
                * (ViewportW - PadLeft - PadRight + ColumnGap)

\* href.startsWith('http://') || ... 'https://' || ... 'mailto:'
isExternal(href) == href # <<>> /\ href[1] \in {"http://", "https://", "mailto:"}

\* href.indexOf('#'), 0-based, -1 when there is none
hashIndexOf(href) ==
    IF \E i \in 1 .. Len(href) : href[i] = "#"
    THEN (CHOOSE i \in 1 .. Len(href) :
              href[i] = "#" /\ \A j \in 1 .. i - 1 : href[j] # "#") - 1
    ELSE -1
filePartOf(href) ==
    IF hashIndexOf(href) >= 0 THEN substring(href, 0, hashIndexOf(href)) ELSE href
fragmentOf(href) ==
    IF hashIndexOf(href) >= 0 THEN substring(href, hashIndexOf(href) + 1, Len(href))
    ELSE <<>>

\* filePart.split('/').pop()
RECURSIVE lastSegment(_)
lastSegment(str) ==
    IF str = <<>> \/ str[Len(str)] = "/" THEN <<>>
    ELSE lastSegment(SubSeq(str, 1, Len(str) - 1)) \o <<str[Len(str)]>>

\* src.endsWith(suffix)
endsWith(str, suffix) ==
    Len(str) >= Len(suffix)
      /\ SubSeq(str, Len(str) - Len(suffix) + 1, Len(str)) = suffix

\* the first element of the sequence that satisfies Test, NoEl when none
firstEl(Test(_)) ==
    IF \E i \in DOMAIN Elements : Test(i)
    THEN CHOOSE i \in DOMAIN Elements : Test(i) /\ \A j \in 1 .. i - 1 : ~Test(j)
    ELSE NoEl

\* document.getElementById(fragment), kept when flipContent contains it
byFragment(fragment) ==
    LET targetEl == firstEl(LAMBDA i : Elements[i].id = fragment)
    IN  IF targetEl # NoEl /\ ~Elements[targetEl].inContent THEN NoEl ELSE targetEl

\* flipContent.querySelector('[data-epub-src="' + filePart + '"]')
bySrc(filePart) ==
    firstEl(LAMBDA i : Elements[i].inContent /\ Elements[i].src = filePart)

\* the loop over flipContent.querySelectorAll('.epub-chapter[data-epub-src]')
byFileName(filePart) ==
    LET fileName == lastSegment(filePart)
    IN  firstEl(LAMBDA i : /\ Elements[i].inContent /\ Elements[i].chapter
                           /\ Elements[i].src # <<>>
                           /\ \/ Elements[i].src = fileName
                              \/ endsWith(Elements[i].src, <<"/">> \o fileName))

\* the target element handleInternalLink resolves an internal href to
resolveLink_fileFirst(href) ==
    LET filePart == filePartOf(href)
        fragment == fragmentOf(href)
        t1 == IF filePart # <<>>
              THEN (IF bySrc(filePart) # NoEl THEN bySrc(filePart) ELSE byFileName(filePart))
              ELSE NoEl
    IN  IF t1 = NoEl /\ fragment # <<>> THEN byFragment(fragment) ELSE t1

resolveLink(href) ==
    LET filePart == filePartOf(href)
        fragment == fragmentOf(href)
        t1 == IF fragment # <<>> THEN byFragment(fragment) ELSE NoEl
    IN  IF t1 = NoEl /\ filePart # <<>>
        THEN (IF bySrc(filePart) # NoEl THEN bySrc(filePart) ELSE byFileName(filePart))
        ELSE t1

\* click on a link of the content: handleInternalLink(e)
LinkClick ==
    /\ ~readerHidden
    /\ \E href \in Hrefs :
         /\ IF href = <<>> \/ isExternal(href) \/ resolveLink(href) = NoEl
            THEN UNCHANGED flipFrame
            ELSE flipTo(navigateTarget(offsetLeftOf(resolveLink(href))))
         /\ lastOp' = [op |-> "linkClick", arg |-> href]
    /\ UNCHANGED <<readerRest, hlVars, audioVars, bmVars, tokenVars, flightVars, libVars>>

\* setTimeout(() => { isFlipping = false; }, 530)
ReleaseFlip ==
    /\ flipTimers > 0
    /\ flipTimers' = flipTimers - 1
    /\ isFlipping' = FALSE
    /\ flipTarget' = NoFlip
    /\ lastOp' = OtherOp
    /\ UNCHANGED <<currentPage, totalPages, fontSize, currentArticleId, currentContentHtml,
                   currentHistoryEntryId, positionDirty, positionTimer, historyPositionTimer,
                   resizeTimeout, resizeTimers, rafQueue, readerHidden, contentCols,
                   histInFlight, patchInFlight, hlVars, audioVars, bmVars, tokenVars, flightVars, libVars>>

\* positionTimer fires: api.patch('/api/articles/<id>/position', ...)
PositionTimerFire ==
    /\ positionTimer
    /\ Cardinality(patchInFlight) < MaxPatch
    /\ positionTimer' = FALSE
    /\ patchInFlight' = patchInFlight \cup
           {[id |-> currentArticleId, current_page |-> currentPage + 1,
             total_pages |-> totalPages]}
    /\ lastOp' = [op |-> "positionPatch", arg |-> currentPage + 1]
    /\ UNCHANGED <<currentPage, totalPages, isFlipping, fontSize, currentArticleId,
                   currentContentHtml, currentHistoryEntryId, positionDirty,
                   historyPositionTimer, resizeTimeout, resizeTimers, flipTimers, rafQueue, readerHidden,
                   contentCols, histInFlight, flipTarget, hlVars, audioVars, bmVars, tokenVars, flightVars, libVars>>

\* the PATCH is answered: .then(() => { positionDirty = false; })
PatchResponse ==
    /\ \E m \in patchInFlight :
         /\ patchInFlight' = patchInFlight \ {m}
         /\ \E ok \in BOOLEAN :
              /\ positionDirty' = IF ok THEN FALSE ELSE positionDirty
              /\ lastOp' = [op |-> IF ok THEN "positionSaved" ELSE "positionFailed",
                            arg |-> m.current_page]
    /\ UNCHANGED <<currentPage, totalPages, isFlipping, fontSize, currentArticleId,
                   currentContentHtml, currentHistoryEntryId, positionTimer,
                   historyPositionTimer, resizeTimeout, resizeTimers, flipTimers, rafQueue, readerHidden,
                   contentCols, histInFlight, flipTarget, hlVars, audioVars, bmVars, tokenVars, flightVars, libVars>>

\* refreshCachedToken() resumes: cachedAccessToken = session?.access_token || null
RefreshCachedToken ==
    /\ tokenRefreshing
    /\ tokenRefreshing' = FALSE
    /\ \E session \in BOOLEAN : cachedAccessToken' = session
    /\ lastOp' = OtherOp
    /\ UNCHANGED <<readerVars, hlVars, audioVars, bmVars, flightVars, libVars>>

\* the page of the final PATCH onBeforeUnload() sends with fetch (method
\* PATCH, keepalive, Authorization: Bearer token), NoFlush when it sends none
NoFlush == 0
finalFlush(articleId, dirty, token, page) ==
    IF articleId # NoId /\ dirty /\ token THEN page + 1 ELSE NoFlush

\* window 'beforeunload': onBeforeUnload(); the response is not awaited
BeforeUnload ==
    /\ lastOp' = [op |-> "beforeunload",
                  arg |-> finalFlush(currentArticleId, positionDirty, cachedAccessToken,
                                     currentPage)]
    /\ UNCHANGED <<readerVars, hlVars, audioVars, bmVars, tokenVars, flightVars, libVars>>

\* historyPositionTimer fires: api.patch('/api/history/<id>/position', ...)
HistoryTimerFire ==
    /\ historyPositionTimer
    /\ historyPositionTimer' = FALSE
    /\ lastOp' = OtherOp
    /\ UNCHANGED <<currentPage, totalPages, isFlipping, fontSize, currentArticleId,
                   currentContentHtml, currentHistoryEntryId, positionDirty, positionTimer,
                   resizeTimeout, resizeTimers, flipTimers, rafQueue, readerHidden, contentCols,
                   histInFlight, patchInFlight, flipTarget, hlVars, audioVars, bmVars, tokenVars, flightVars, libVars>>

\* POST /api/history is answered: currentHistoryEntryId = result.entry.id
HistoryResponse ==
    /\ \E c \in histInFlight :
         /\ histInFlight' = histInFlight \ {c}
         /\ \E ok \in BOOLEAN :
              /\ currentHistoryEntryId' = IF ok THEN c ELSE currentHistoryEntryId
              /\ lastOp' = OtherOp
    /\ UNCHANGED <<currentPage, totalPages, isFlipping, fontSize, currentArticleId,
                   currentContentHtml, positionDirty, positionTimer, historyPositionTimer,
                   resizeTimeout, resizeTimers, flipTimers, rafQueue, readerHidden, contentCols,
                   patchInFlight, flipTarget, hlVars, audioVars, bmVars, tokenVars, flightVars, libVars>>

\* setTimeout(paginate, 150): the delay in clock ticks of 75 ms
ResizeDelay == 2

\* clearTimeout(resizeTimeout): the timer of the handle, when it is pending,
\* is the last one set
clearTimeout(timers, live) == IF live /\ timers # <<>> THEN Front(timers) ELSE timers

\* window 'resize': clearTimeout(resizeTimeout); resizeTimeout = setTimeout(paginate, 150)
onResize_noClear(timers, live, t) == Append(timers, t + ResizeDelay)
onResize(timers, live, t) == Append(clearTimeout(timers, live), t + ResizeDelay)

ResizeAs(colOpts, op) ==
    /\ \E c \in colOpts :
         /\ contentCols' = c
         /\ lastOp' = op
    /\ resizeTimers' = onResize(resizeTimers, resizeTimeout, now)
    /\ resizeTimeout' = TRUE
    /\ UNCHANGED <<currentPage, totalPages, isFlipping, fontSize, currentArticleId,
                   currentContentHtml, currentHistoryEntryId, positionDirty, positionTimer,
                   historyPositionTimer, flipTimers, rafQueue, readerHidden,
                   histInFlight, patchInFlight, flipTarget, hlVars, audioVars, bmVars, tokenVars, flightVars, libVars>>
ResizeTo(colOpts) == ResizeAs(colOpts, OtherOp)
Resize == ResizeTo(0 .. MaxCols)

\* the resize event, observed with its time
Resized == ResizeAs(0 .. MaxCols, [op |-> "resize", arg |-> now])

\* a resize timer fires: paginate()
ResizeFireWhen(Due(_), Op(_)) ==
    \E i \in DOMAIN resizeTimers :
        /\ Due(resizeTimers[i])
        /\ resizeTimers' = SubSeq(resizeTimers, 1, i - 1)
                             \o SubSeq(resizeTimers, i + 1, Len(resizeTimers))
        /\ resizeTimeout' = (resizeTimeout /\ i < Len(resizeTimers))
        /\ LET pg == paginate(currentPage, offsetWidth, scrollWidth)
           IN  currentPage' = pg.currentPage /\ totalPages' = pg.totalPages
        /\ lastOp' = Op(resizeTimers[i])
        /\ UNCHANGED <<isFlipping, fontSize, currentArticleId, currentContentHtml,
                       currentHistoryEntryId, positionDirty, positionTimer,
                       historyPositionTimer, flipTimers, rafQueue, readerHidden, contentCols,
                       histInFlight, patchInFlight, flipTarget, hlVars, audioVars, bmVars,
                       tokenVars, flightVars, libVars>>

\* the timer fires, the time that has passed left out of account
ResizeFire == ResizeFireWhen(LAMBDA d : TRUE, LAMBDA d : OtherOp)

\* the timer fires when it is due, or later
ResizeTimerDue ==
    ResizeFireWhen(LAMBDA d : now >= d, LAMBDA d : [op |-> "resizeTimer", arg |-> d])

\* 75 ms pass
Tick ==
    /\ now < MaxNow + ResizeDelay
    /\ now' = now + 1
    /\ lastOp' = OtherOp
    /\ UNCHANGED <<readerVars, hlVars, audioVars, currentBookmarks, bmStore, bmWritten,
                   tokenVars, flightVars, libVars>>

\* applyFontSize() / applyFont(): restyle, then requestAnimationFrame(paginate);
\* the new font makes the content flow into some other number of columns
FontChangeAs(fs, op) ==
    /\ ~readerHidden
    /\ Len(rafQueue) < MaxRaf
    /\ fontSize' = fs
    /\ rafQueue' = Append(rafQueue, CbPaginate)
    /\ \E c \in 0 .. MaxCols : contentCols' = c
    /\ lastOp' = op
    /\ UNCHANGED <<currentPage, totalPages, isFlipping, currentArticleId, currentContentHtml,
                   currentHistoryEntryId, positionDirty, positionTimer, historyPositionTimer,
                   resizeTimeout, resizeTimers, flipTimers, readerHidden,
                   histInFlight, patchInFlight, flipTarget, hlVars, audioVars, bmVars, tokenVars, flightVars, libVars>>
FontChange(fs) == FontChangeAs(fs, OtherOp)

FontSizeDown ==
    /\ fontSize > DefaultFontSize - FontRange * FontStep
    /\ fontSize > MinFontSize
    /\ FontChange(fontSize - FontStep)

FontSizeUp ==
    /\ fontSize < DefaultFontSize + FontRange * FontStep
    /\ fontSize < MaxFontSize
    /\ FontChange(fontSize + FontStep)
ToggleFont == FontChange(fontSize)

\* the three font handlers, observed
FontStepped ==
    \E fs \in {fontSize - FontStep, fontSize + FontStep} :
        /\ fs >= DefaultFontSize - FontRange * FontStep /\ fs >= MinFontSize
        /\ fs <= DefaultFontSize + FontRange * FontStep /\ fs <= MaxFontSize
        /\ FontChangeAs(fs, [op |-> "font", arg |-> fs])
FontToggled == FontChangeAs(fontSize, [op |-> "font", arg |-> fontSize])

\* an animation frame
FrameOf(sessions) ==
    /\ rafQueue # <<>>
    /\ \E signedIn \in sessions :
         LET st == runCallbacks(rafQueue,
                      [pg |-> [currentPage |-> currentPage, totalPages |-> totalPages],
                       next |-> <<>>, logs |-> 0])
         IN  /\ currentPage' = st.pg.currentPage
             /\ totalPages' = st.pg.totalPages
             /\ rafQueue' = st.next
             /\ histInFlight' = IF st.logs > 0 /\ signedIn /\ currentContentHtml # 0
                                THEN histInFlight \cup {currentContentHtml}
                                ELSE histInFlight
             /\ lastOp' = OtherOp
    /\ UNCHANGED <<isFlipping, fontSize, currentArticleId, currentContentHtml,
                   currentHistoryEntryId, positionDirty, positionTimer, historyPositionTimer,
                   resizeTimeout, resizeTimers, flipTimers, readerHidden, contentCols,
                   patchInFlight, flipTarget, hlVars, audioVars, bmVars, tokenVars, flightVars, libVars>>
Frame == FrameOf(BOOLEAN)

(***************************************************************************)
(* NARRATION (audio-reader.js)                                             *)
(*                                                                         *)
(* The functions of audio-reader.js call one another, so each is an        *)
(* operator from the narration state (a record of the module's variables   *)
(* and of the speech engine) to the narration state it leaves; a handler   *)
(* is the action that installs the result.                                 *)
(*                                                                         *)
(* speechSynthesis follows the Web Speech API: speak() appends to the      *)
(* queue and changes no paused state, the head of the queue is spoken      *)
(* while the instance is not paused, cancel() empties the queue and does   *)
(* not change the paused state, and the end event of an utterance is       *)
(* delivered to its onend handler in a later task.  An utterance that was  *)
(* being spoken when cancel() removed it gets an end or an error event,    *)
(* depending on the engine; onerror only logs.                             *)
(***************************************************************************)
SpeedSteps == 6      \* SPEED_STEPS.length
NoSpeech == -1       \* no sentence was handed to speechSynthesis.speak

audio ==
    [isPlaying |-> isPlaying, isPaused |-> isPaused, sentences |-> sentences,
     currentSentenceIndex |-> currentSentenceIndex,
     sentenceRangeData |-> sentenceRangeData, contentElement |-> contentElement,
     speedIndex |-> speedIndex, highlightElements |-> highlightElements,
     synthQueue |-> synthQueue, synthPaused |-> synthPaused,
     pendingEnds |-> pendingEnds, dom |-> dom, spoke |-> NoSpeech]

audioBecomes(a) ==
    \E r \in {a} :
        /\ isPlaying' = r.isPlaying /\ isPaused' = r.isPaused /\ sentences' = r.sentences
        /\ currentSentenceIndex' = r.currentSentenceIndex
        /\ sentenceRangeData' = r.sentenceRangeData /\ contentElement' = r.contentElement
        /\ speedIndex' = r.speedIndex /\ highlightElements' = r.highlightElements
        /\ synthQueue' = r.synthQueue /\ synthPaused' = r.synthPaused
        /\ pendingEnds' = r.pendingEnds

isWhitespace(ch) == ch = " "
isDelimiter(ch) == ch \in {".", "!", "?"}

\* s.replace(/\s+/g, ' ')
RECURSIVE dropWhitespace(_)
dropWhitespace(s) ==
    IF s # <<>> /\ isWhitespace(Head(s)) THEN dropWhitespace(Tail(s)) ELSE s
RECURSIVE collapseWhitespace(_)
collapseWhitespace(s) ==
    IF s = <<>> THEN <<>>
    ELSE IF isWhitespace(Head(s)) THEN <<" ">> \o collapseWhitespace(dropWhitespace(s))
    ELSE <<Head(s)>> \o collapseWhitespace(Tail(s))

\* String.prototype.trim
trim(s) ==
    LET solid == { i \in 1 .. Len(s) : ~isWhitespace(s[i]) }
    IN  IF solid = {} THEN <<>>
        ELSE SubSeq(s, CHOOSE i \in solid : \A j \in solid : i <= j,
                       CHOOSE i \in solid : \A j \in solid : i >= j)

\* clone.querySelectorAll('script, style, noscript, svg, .pdf-page') are removed
isUnreadable(k) ==
    k.nodeType = 1 /\ k.nodeName \in {"SCRIPT", "STYLE", "NOSCRIPT", "svg"}

\* textContent of the clone after the removal
RECURSIVE readableText(_)
RECURSIVE readableTextOf(_)
readableTextOf(ks) ==
    IF ks = <<>> THEN <<>> ELSE readableText(Head(ks)) \o readableTextOf(Tail(ks))
readableText(n) ==
    IF n.nodeType = 3 THEN n.data
    ELSE IF isUnreadable(n) THEN <<>>
    ELSE readableTextOf(n.kids)

\* text.match(/[^.!?]*[.!?]+[\s]?|[^.!?]+$/g)
RECURSIVE matchSentences(_)
matchSentences(s) ==
    IF s = <<>> THEN <<>>
    ELSE LET ds == { i \in 1 .. Len(s) : isDelimiter(s[i]) }
         IN  IF ds = {} THEN <<s>>
             ELSE LET first == CHOOSE i \in ds : \A j \in ds : i <= j
                      run == { j \in first .. Len(s) : \A k \in first .. j : isDelimiter(s[k]) }
                      last == CHOOSE j \in run : \A k \in run : j >= k
                      stop == IF last < Len(s) /\ isWhitespace(s[last + 1])
                              THEN last + 1 ELSE last
                  IN  <<SubSeq(s, 1, stop)>> \o matchSentences(SubSeq(s, stop + 1, Len(s)))

extractSentences_noTrim(el) ==
    LET text == trim(collapseWhitespace(readableText(el)))
        raw == matchSentences(text)
    IN  IF text = <<>> THEN <<>>
        ELSE SelectSeq(raw, LAMBDA s : Len(s) > 0)
extractSentences(el) ==
    LET text == trim(collapseWhitespace(readableText(el)))
        raw == matchSentences(text)
    IN  IF text = <<>> THEN <<>>
        ELSE SelectSeq([i \in 1 .. Len(raw) |-> trim(raw[i])], LAMBDA s : Len(s) > 0)

\* the text nodes the TreeWalker of buildSentenceRanges accepts
walkerAccepts(n, q) ==
    /\ NodeAt(n, Front(q)).nodeName \notin {"SCRIPT", "STYLE", "NOSCRIPT"}
    /\ trim(NodeAt(n, q).data) # <<>>
walkedTextNodes(n) == SelectSeq(textNodesUnder(n, <<>>), LAMBDA q : walkerAccepts(n, q))

RECURSIVE textLength(_, _)
textLength(n, list) ==
    IF list = <<>> THEN 0 ELSE Len(NodeAt(n, Head(list)).data) + textLength(n, Tail(list))

\* findFirstVisibleSentenceIndex(): the sentence index computed from the first
\* text node whose box meets the viewport, 0 when none does; which text node
\* that is depends on the page shown
firstVisibleSentenceIndexes(n, sents) ==
    LET tns == walkedTextNodes(n)
        totalChars == textLength(n, tns)
    IN  IF Len(sents) = 0 \/ tns = <<>> \/ totalChars = 0 THEN {0}
        ELSE {0} \cup { Max(0, Min((textLength(n, SubSeq(tns, 1, i - 1)) * Len(sents))
                                      \div totalChars, Len(sents) - 1)) :
                        i \in 1 .. Len(tns) }

\* speechSynthesis.cancel(); endEvent: the engine reports the removal of the
\* utterance being spoken with an end event
cancel(a, endEvent) ==
    [a EXCEPT !.synthQueue = <<>>,
              !.pendingEnds = IF a.synthQueue # <<>> /\ Head(a.synthQueue).started /\ endEvent
                              THEN @ \cup {Head(a.synthQueue).index} ELSE @]

\* speechSynthesis.speak(new SpeechSynthesisUtterance(sentences[index])), the
\* utterance carrying onend's index
speak(a, index) ==
    [a EXCEPT !.synthQueue = Append(@, [index |-> index, started |-> FALSE,
                                        text |-> a.sentences[index + 1]]),
              !.spoke = index]

\* <mark class="audio-highlight">: the only marks without a highlight id
AudioMark(kids) == Element("MARK", kids)
isAudioMark(k) == k.nodeType = 1 /\ k.nodeName = "MARK" /\ k.hid = 0

\* Node.textContent
RECURSIVE textContent(_)
RECURSIVE textContentOf(_)
textContentOf(ks) ==
    IF ks = <<>> THEN <<>> ELSE textContent(Head(ks)) \o textContentOf(Tail(ks))
textContent(n) == IF n.nodeType = 3 THEN n.data ELSE textContentOf(n.kids)

\* the active-sentence marks below n, in document order
RECURSIVE audioMarksOf(_)
RECURSIVE audioMarksIn(_)
audioMarksIn(ks) == IF ks = <<>> THEN <<>> ELSE audioMarksOf(Head(ks)) \o audioMarksIn(Tail(ks))
audioMarksOf(n) == (IF isAudioMark(n) THEN <<n>> ELSE <<>>) \o audioMarksIn(n.kids)

\* parent.replaceChild(document.createTextNode(el.textContent), el);
\* parent.normalize() for the marks still attached to the document
RECURSIVE replaceAudioMarks(_)
RECURSIVE replaceAudioMarksIn(_)
replaceAudioMarksIn(ks) ==
    IF ks = <<>> THEN <<>>
    ELSE (IF isAudioMark(Head(ks)) THEN << TextNode(textContent(Head(ks))) >>
          ELSE << replaceAudioMarks(Head(ks)) >>) \o replaceAudioMarksIn(Tail(ks))
replaceAudioMarks(n) ==
    IF n.nodeType = 3 THEN n
    ELSE LET touched == \E i \in 1 .. Len(n.kids) : isAudioMark(n.kids[i])
             bare == [n EXCEPT !.kids = replaceAudioMarksIn(@)]
         IN  IF touched THEN normalize(bare) ELSE bare

\* clearHighlights() of audio-reader.js
clearAudioHighlights(a) ==
    IF a.highlightElements = <<>> THEN a
    ELSE [a EXCEPT !.dom = replaceAudioMarks(@), !.highlightElements = <<>>]

\* sentenceRangeData = null
NoRangeData == [built |-> FALSE, count |-> 0, ranges |-> <<>>]
\* ranges.push(null)
NoSentenceRange == [start |-> -1, end |-> -1]

\* String.prototype.indexOf(needle, from), positions counted from 0
indexOf(hay, needle, from) ==
    LET hits == { i \in from .. Len(hay) - Len(needle) :
                    SubSeq(hay, i + 1, i + Len(needle)) = needle }
    IN  IF hits = {} THEN -1 ELSE CHOOSE i \in hits : \A j \in hits : i <= j

\* the second loop of buildSentenceRanges
RECURSIVE sentenceRanges(_, _, _)
sentenceRanges(normalizedFull, sentenceList, searchStart) ==
    IF sentenceList = <<>> THEN <<>>
    ELSE LET normalizedSentence == trim(collapseWhitespace(Head(sentenceList)))
             idx == indexOf(normalizedFull, normalizedSentence, searchStart)
         IN  IF idx >= 0
             THEN << [start |-> idx, end |-> idx + Len(normalizedSentence)] >>
                  \o sentenceRanges(normalizedFull, Tail(sentenceList),
                                    idx + Len(normalizedSentence))
             ELSE << NoSentenceRange >>
                  \o sentenceRanges(normalizedFull, Tail(sentenceList), searchStart)

\* textNodes.push({ node, ... }): the i-th text node the walker accepted is
\* from now on the node that carries ref = i, wherever it moves; references
\* of an earlier capture are dropped
RECURSIVE clearRefs(_)
clearRefs(n) ==
    [n EXCEPT !.ref = 0, !.kids = [i \in 1 .. Len(n.kids) |-> clearRefs(n.kids[i])]]
RECURSIVE setRefs(_, _, _)
setRefs(n, list, i) ==
    IF i > Len(list) THEN n
    ELSE setRefs(Splice(n, list[i], << [NodeAt(n, list[i]) EXCEPT !.ref = i] >>), list, i + 1)

RECURSIVE fullTextOf(_, _)
fullTextOf(n, list) ==
    IF list = <<>> THEN <<>> ELSE NodeAt(n, Head(list)).data \o fullTextOf(n, Tail(list))

\* the search of every sentence begun at position 0
RECURSIVE sentenceRangesFromZero(_, _)
sentenceRangesFromZero(normalizedFull, sentenceList) ==
    IF sentenceList = <<>> THEN <<>>
    ELSE LET normalizedSentence == trim(collapseWhitespace(Head(sentenceList)))
             idx == indexOf(normalizedFull, normalizedSentence, 0)
         IN  << IF idx >= 0 THEN [start |-> idx, end |-> idx + Len(normalizedSentence)]
                ELSE NoSentenceRange >>
             \o sentenceRangesFromZero(normalizedFull, Tail(sentenceList))
buildSentenceRanges_noCursor(a, sentenceList) ==
    LET el == clearRefs(a.dom)
        textNodes == walkedTextNodes(el)
        normalizedFull == collapseWhitespace(fullTextOf(el, textNodes))
    IN  [a EXCEPT !.dom = setRefs(el, textNodes, 1),
                  !.sentenceRangeData = [built |-> TRUE, count |-> Len(textNodes),
                                         ranges |-> sentenceRangesFromZero(normalizedFull,
                                                                           sentenceList)]]
buildSentenceRanges(a, sentenceList) ==
    LET el == clearRefs(a.dom)
        textNodes == walkedTextNodes(el)
        normalizedFull == collapseWhitespace(fullTextOf(el, textNodes))
    IN  [a EXCEPT !.dom = setRefs(el, textNodes, 1),
                  !.sentenceRangeData = [built |-> TRUE, count |-> Len(textNodes),
                                         ranges |-> sentenceRanges(normalizedFull,
                                                                   sentenceList, 0)]]

\* the path of the captured text node i, NullNode when it is no longer in
\* the document
pathOfRef(n, i) ==
    LET found == SelectSeq(textNodesUnder(n, <<>>), LAMBDA q : NodeAt(n, q).ref = i)
    IN  IF found = <<>> THEN NullNode ELSE found[1]

\* tn.node.textContent; a captured node that left the document did so when
\* normalize() removed it for being empty
refText(n, i) == IF pathOfRef(n, i) = NullNode THEN <<>> ELSE NodeAt(n, pathOfRef(n, i)).data

\* the characters of the captured text nodes, in order: fullTextParts before
\* the normalized positions are assigned
RECURSIVE partsFrom(_, _, _)
partsFrom(n, count, i) ==
    IF i > count THEN <<>>
    ELSE [o \in 1 .. Len(refText(n, i)) |->
             [ch |-> refText(n, i)[o], nodeIdx |-> i, offset |-> o - 1]]
         \o partsFrom(n, count, i + 1)

\* a character gets a normalized position unless it is whitespace that
\* follows whitespace
hasNormalizedIdx(parts, j) ==
    ~isWhitespace(parts[j].ch) \/ j = 1 \/ ~isWhitespace(parts[j - 1].ch)
normalizedIdx(parts, j) ==
    IF hasNormalizedIdx(parts, j)
    THEN Cardinality({ k \in 1 .. j - 1 : hasNormalizedIdx(parts, k) })
    ELSE -1

\* Range.prototype.surroundContents(mark) for a range with both boundary
\* points in text nodes; thrown: a non-Text node is partially contained
surroundContents(n, sc, so, ec, eo) ==
    LET s == NodeAt(n, sc)
        e == NodeAt(n, ec)
        parent == NodeAt(n, Front(sc))
        si == sc[Len(sc)]
        ei == ec[Len(ec)]
    IN  IF sc = ec
        THEN [thrown |-> FALSE,
              dom |-> Splice(n, sc,
                        << [s EXCEPT !.data = SubSeq(@, 1, so)],
                           AudioMark(<< TextNode(SubSeq(s.data, so + 1, eo)) >>),
                           TextNode(SubSeq(s.data, eo + 1, Len(s.data))) >>)]
        ELSE IF Front(sc) # Front(ec) THEN [thrown |-> TRUE, dom |-> n]
        ELSE [thrown |-> FALSE,
              dom |-> Splice(n, Front(sc),
                        << [parent EXCEPT !.kids =
                              SubSeq(@, 1, si - 1)
                              \o << [s EXCEPT !.data = SubSeq(@, 1, so)],
                                    AudioMark(<< TextNode(SubSeq(s.data, so + 1, Len(s.data))) >>
                                              \o SubSeq(parent.kids, si + 1, ei - 1)
                                              \o << TextNode(SubSeq(e.data, 1, eo)) >>),
                                    [e EXCEPT !.data = SubSeq(@, eo + 1, Len(@))] >>
                              \o SubSeq(@, ei + 1, Len(@))] >>)]

\* highlightSentence(index)
highlightSentence(a, index) ==
    LET c == clearAudioHighlights(a)
        data == c.sentenceRangeData
        range == data.ranges[index + 1]
        parts == partsFrom(c.dom, data.count, 1)
        starts == { j \in 1 .. Len(parts) : normalizedIdx(parts, j) = range.start }
        ends == { j \in 1 .. Len(parts) : normalizedIdx(parts, j) = range.end - 1 }
        origStart == parts[CHOOSE j \in starts : \A k \in starts : j <= k]
        origEnd == parts[CHOOSE j \in ends : \A k \in ends : j >= k]
        sc == pathOfRef(c.dom, origStart.nodeIdx)
        ec == pathOfRef(c.dom, origEnd.nodeIdx)
        wrapped == surroundContents(c.dom, sc, origStart.offset, ec,
                                    Min(origEnd.offset + 1, Len(NodeAt(c.dom, ec).data)))
    IN  IF ~data.built \/ index + 1 > Len(data.ranges) THEN c
        ELSE IF range = NoSentenceRange THEN c
        ELSE IF starts = {} \/ ends = {} THEN c
        ELSE IF wrapped.thrown THEN c
        ELSE [c EXCEPT !.dom = wrapped.dom, !.highlightElements = <<index>>]

stopAudio_noClear(a, endEvent) ==
    cancel([a EXCEPT !.isPlaying = FALSE, !.isPaused = FALSE,
                     !.currentSentenceIndex = 0], endEvent)

stopAudio(a, endEvent) ==
    clearAudioHighlights(cancel([a EXCEPT !.isPlaying = FALSE, !.isPaused = FALSE,
                                          !.currentSentenceIndex = 0], endEvent))

speakSentence(a, index, endEvent) ==
    IF index >= Len(a.sentences) THEN stopAudio(a, endEvent)
    ELSE speak([a EXCEPT !.currentSentenceIndex = index], index)

\* utterance.onend
onend_noGuard(a, index, endEvent) == speakSentence(a, index + 1, endEvent)
onend(a, index, endEvent) ==
    IF a.isPlaying /\ ~a.isPaused THEN speakSentence(a, index + 1, endEvent) ELSE a

playAudio(a, first, endEvent) ==
    IF ~a.contentElement THEN a
    ELSE IF a.isPaused
         THEN [a EXCEPT !.isPaused = FALSE, !.isPlaying = TRUE, !.synthPaused = FALSE]
    ELSE LET sents == IF Len(a.sentences) = 0 THEN extractSentences(a.dom) ELSE a.sentences
         IN  IF Len(sents) = 0 THEN [a EXCEPT !.sentences = sents]
             ELSE speakSentence([buildSentenceRanges(a, sents)
                                   EXCEPT !.sentences = sents,
                                          !.currentSentenceIndex = first,
                                          !.isPlaying = TRUE, !.isPaused = FALSE],
                                first, endEvent)

pauseAudio_noGuard(a) ==
    [a EXCEPT !.isPaused = TRUE, !.isPlaying = FALSE, !.synthPaused = TRUE]
pauseAudio(a) ==
    IF ~a.isPlaying THEN a
    ELSE [a EXCEPT !.isPaused = TRUE, !.isPlaying = FALSE, !.synthPaused = TRUE]

\* skipForward() without Math.min
skip_noClamp(a, step, endEvent) ==
    IF Len(a.sentences) = 0 THEN a
    ELSE LET c == clearAudioHighlights(cancel(a, endEvent))
             target == Max(0, a.currentSentenceIndex + step)
         IN  IF a.isPlaying \/ a.isPaused
             THEN speakSentence([c EXCEPT !.isPaused = FALSE, !.isPlaying = TRUE],
                                target, endEvent)
             ELSE [c EXCEPT !.currentSentenceIndex = target]

\* skipForward() is skip(a, 1, ...), skipBackward() is skip(a, -1, ...)
skip(a, step, endEvent) ==
    IF Len(a.sentences) = 0 THEN a
    ELSE LET c == clearAudioHighlights(cancel(a, endEvent))
             target == Max(0, Min(a.currentSentenceIndex + step, Len(a.sentences) - 1))
         IN  IF a.isPlaying \/ a.isPaused
             THEN speakSentence([c EXCEPT !.isPaused = FALSE, !.isPlaying = TRUE],
                                target, endEvent)
             ELSE [c EXCEPT !.currentSentenceIndex = target]

\* the tail of cycleSpeed() and of onVoiceChange()
restartSentence(a, endEvent) ==
    IF a.isPlaying
    THEN speakSentence(clearAudioHighlights(cancel(a, endEvent)),
                       a.currentSentenceIndex, endEvent)
    ELSE a

cycleSpeed(a, endEvent) ==
    restartSentence([a EXCEPT !.speedIndex = (@ + 1) % SpeedSteps], endEvent)

setAudioContent_keepSentences(a, endEvent) ==
    LET s == IF a.isPlaying \/ a.isPaused THEN stopAudio(a, endEvent) ELSE a
    IN  [s EXCEPT !.contentElement = TRUE,
                  !.sentenceRangeData = NoRangeData, !.currentSentenceIndex = 0]

setAudioContent(a, endEvent) ==
    LET s == IF a.isPlaying \/ a.isPaused THEN stopAudio(a, endEvent) ELSE a
    IN  [s EXCEPT !.contentElement = TRUE, !.sentences = <<>>,
                  !.sentenceRangeData = NoRangeData, !.currentSentenceIndex = 0]

cleanupAudio(a, endEvent) ==
    [stopAudio(a, endEvent) EXCEPT !.contentElement = FALSE, !.sentences = <<>>,
                                   !.sentenceRangeData = NoRangeData, !.currentSentenceIndex = 0]

(***************************************************************************)
(* BOOKMARKS (reader.js 626-708) and the save button (1016-1063)           *)
(***************************************************************************)
\* the content strings of the documents, as loadArticle receives them
Html(c) ==
    CASE c = 1 -> << "<", "p", ">", "a", "b", "c", "<", "e", "m", ">", "d",
                     "<", "/", "e", "m", ">", "<", "/", "p", ">" >>
      [] c = 2 -> << "<", "s", "v", "g", ">", "<", "t", "e", "x", "t", ">", "b",
                     "<", "/", "t", "e", "x", "t", ">", "<", "/", "s", "v", "g", ">" >>
      [] c = 3 -> << "<", "p", ">", "a", ".", " ", "b", ".", "<", "e", "m", ">", "c",
                     "<", "/", "e", "m", ">", "<", "/", "p", ">" >>
      [] c = 7 -> << "<", "p", ">", "a", "<", "e", "m", ">", "b", "<", "/", "e", "m", ">",
                     "c", ".", "<", "/", "p", ">" >>
      [] c = 8 -> << "<", "p", ">", "<", "e", "m", ">", "a", "<", "/", "e", "m", ">", " ",
                     "<", "e", "m", ">", "b", ".", "<", "/", "e", "m", ">", " ", "c", ".",
                     "<", "/", "p", ">" >>
      [] c = 9 -> << "<", "p", ">" >> \o ExampleChars \o << "<", "/", "p", ">" >>
      [] c >= 10 -> << "<", "p", ">" >> \o TextOf(c) \o << "<", "/", "p", ">" >>
      [] OTHER -> <<>>

\* String.prototype.charCodeAt for the characters of the documents
charCode(ch) ==
    CASE ch = " " -> 32 [] ch = "." -> 46 [] ch = "/" -> 47 [] ch = "<" -> 60
      [] ch = ">" -> 62 [] ch = "a" -> 97 [] ch = "b" -> 98 [] ch = "c" -> 99
      [] ch = "d" -> 100 [] ch = "e" -> 101 [] ch = "g" -> 103 [] ch = "m" -> 109
      [] ch = "p" -> 112 [] ch = "s" -> 115 [] ch = "t" -> 116 [] ch = "v" -> 118
      [] ch = "x" -> 120 [] ch = "!" -> 33 [] ch = "'" -> 39 [] ch = "?" -> 63
      [] ch = "H" -> 72 [] ch = "I" -> 73 [] ch = "f" -> 102 [] ch = "i" -> 105
      [] ch = "l" -> 108 [] ch = "n" -> 110 [] ch = "o" -> 111 [] ch = "r" -> 114
      [] ch = "u" -> 117 [] ch = "w" -> 119 [] ch = "y" -> 121

\* hash = ((hash << 5) + hash + str.charCodeAt(i)) & 0x7fffffff, from 5381:
\* 33 * hash + code modulo 2^31, the hash held as its high 15 and low 16
\* bits; the key holds the number in base 36, one rendering per number
\* (the loop over the characters is computed half by half, the first half first)
RECURSIVE hashFrom(_, _)
hashFrom(hash, str) ==
    IF str = <<>> THEN hash
    ELSE IF Len(str) = 1
    THEN LET low == 33 * hash.lo + charCode(Head(str))
         IN  [hi |-> (33 * hash.hi + low \div 65536) % 32768, lo |-> low % 65536]
    ELSE CHOOSE h \in { hashFrom(half, SubSeq(str, Len(str) \div 2 + 1, Len(str))) :
                         half \in { hashFrom(hash, SubSeq(str, 1, Len(str) \div 2)) } } : TRUE
simpleHash(str) == hashFrom([hi |-> 5381 \div 65536, lo |-> 5381 % 65536], str)

\* the hash keys of the documents, computed once
contentHash ==
    [c \in Contents \cup {7, 8, 9} \cup { 10 + codeOfText(t) : t \in Texts } |->
        simpleHash(substring(Html(c), 0, 500))]

\* getBookmarkStorageKey(): 'reader-bookmarks-' + id, or
\* 'reader-bookmarks-hash-' + hash, or null
NoKey == <<"", [hi |-> 0, lo |-> 0]>>
getBookmarkStorageKey(articleId, contentHtml) ==
    IF articleId # NoId THEN <<"reader-bookmarks-", [hi |-> 0, lo |-> articleId]>>
    ELSE IF contentHtml # 0 THEN <<"reader-bookmarks-hash-", contentHash[contentHtml]>>
    ELSE NoKey

\* localStorage.getItem / setItem on a store of JSON lists; a missing key
\* reads as null, which the callers turn into []
getItem(store, key) == IF key \in DOMAIN store THEN store[key] ELSE <<>>
storeItem(store, key, value) ==
    [k \in DOMAIN store \cup {key} |-> IF k = key THEN value ELSE store[k]]

\* persistBookmarks(); throws: localStorage.setItem throws (quota exceeded)
persistBookmarks(store, key, bookmarks, throws) ==
    IF key # NoKey /\ ~throws THEN storeItem(store, key, bookmarks) ELSE store

\* loadBookmarks()
loadBookmarks(store, key) == IF key = NoKey THEN <<>> ELSE getItem(store, key)

\* the pages carrying a bookmark
bookmarkedPages(bookmarks) == { bookmarks[i].page_number : i \in 1 .. Len(bookmarks) }

\* toggleBookmark() on the list; t is Date.now()
toggleBookmark(bookmarks, page, t) ==
    LET pageNum == page + 1
        found == SelectSeq(bookmarks, LAMBDA b : b.page_number = pageNum)
    IN  IF found # <<>>
        THEN SelectSeq(bookmarks, LAMBDA b : b.id # found[1].id)
        ELSE Append(bookmarks, [id |-> t, page_number |-> pageNum])

\* click on #bookmarkToggle or the key b: toggleBookmark(), persistBookmarks()
ToggleBookmark ==
    /\ ~readerHidden
    /\ \E t \in now .. Min(now + 1, MaxNow), throws \in BOOLEAN :
         LET toggled == toggleBookmark(currentBookmarks, currentPage, t)
             key == getBookmarkStorageKey(currentArticleId, currentContentHtml)
         IN  /\ currentBookmarks' = toggled
             /\ bmStore' = persistBookmarks(bmStore, key, toggled, throws)
             /\ bmWritten' = IF key # NoKey /\ ~throws /\ currentContentHtml # 0
                             THEN [bmWritten EXCEPT ![currentContentHtml] = toggled]
                             ELSE bmWritten
             /\ now' = t
             /\ lastOp' = [op |-> "toggleBookmark", arg |-> IF throws THEN 1 ELSE 0]
    /\ UNCHANGED <<readerVars, hlVars, audioVars, tokenVars, flightVars, libVars>>

\* click on #saveBtn, the requests answered before anything else happens:
\* a saved article is removed from the library, an unsaved one is posted
\* when there is a session and gets its article id
HandleSave ==
    /\ ~readerHidden /\ currentContentHtml # 0
    /\ \E session \in BOOLEAN, ok \in BOOLEAN :
         currentArticleId' =
             IF currentArticleId # NoId
             THEN (IF ok THEN NoId ELSE currentArticleId)
             ELSE (IF session /\ ok THEN currentContentHtml ELSE NoId)
    /\ lastOp' = [op |-> "handleSave", arg |-> 0]
    /\ UNCHANGED <<currentPage, totalPages, isFlipping, fontSize, currentContentHtml,
                   currentHistoryEntryId, positionDirty, positionTimer,
                   historyPositionTimer, resizeTimeout, resizeTimers, flipTimers, rafQueue,
                   readerHidden, contentCols, histInFlight, patchInFlight, flipTarget,
                   hlVars, audioVars, bmVars, tokenVars, flightVars, libVars>>

\* flipContent.innerHTML = contentHtml: the children go, a pending range
\* collapses onto the content root, the parsed content comes in
setInnerHTML(c) ==
    /\ dom' = ParseHtml(c)
    /\ pendingRange' = IF pendingRange = NoRange THEN NoRange
                       ELSE [sc |-> <<>>, so |-> 0, ec |-> <<>>, eo |-> 0]
    /\ UNCHANGED <<highlights, hlArticleId, hlStore, nextHlId>>

\* loadArticle(contentHtml, options); Op(c) is what the step is recorded as
LoadArticleAs(docs, savedOpts, pageOpts, fontOpts, colOpts, Op(_)) ==
    /\ rafQueue = <<>>
    /\ \E c \in docs, saved \in savedOpts, page \in pageOpts, fs \in fontOpts,
          cols \in colOpts :
         /\ currentContentHtml' = c
         /\ currentArticleId' = IF saved THEN c ELSE NoId
         /\ fontSize' = IF fs # 0 THEN fs ELSE fontSize
         /\ contentCols' = cols
         /\ rafQueue' = <<CbPaginate, CbPaginate, CbShowOuter, CbLoadOuter(page)>>
         /\ setInnerHTML(c)
         /\ currentBookmarks' =
                loadBookmarks(bmStore, getBookmarkStorageKey(IF saved THEN c ELSE NoId, c))
         /\ lastOp' = Op(c)
    /\ positionDirty' = FALSE
    /\ positionTimer' = FALSE
    /\ currentHistoryEntryId' = NoId
    /\ historyPositionTimer' = FALSE
    /\ readerHidden' = FALSE
    /\ \E endEvent \in BOOLEAN :
         audioBecomes(setAudioContent([audio EXCEPT !.dom = dom'], endEvent))
    /\ tokenRefreshing' = TRUE
    /\ UNCHANGED <<currentPage, totalPages, isFlipping, resizeTimeout, resizeTimers, flipTimers,
                   histInFlight, patchInFlight, flipTarget, bmStore, bmWritten, now,
                   cachedAccessToken, flightVars, libVars>>
LoadArticleOf(docs, savedOpts, pageOpts, fontOpts, colOpts) ==
    LoadArticleAs(docs, savedOpts, pageOpts, fontOpts, colOpts,
                  LAMBDA c : [op |-> "loadArticle", arg |-> c])
LoadArticle == LoadArticleOf({1}, BOOLEAN, PageOptions, FontOptions, 0 .. MaxCols)

(***************************************************************************)
(* FILE INGESTION: parseEpub and the Load file button                      *)
(***************************************************************************)
\* an .epub archive and what the user does at the passphrase prompt:
\* rights = META-INF/rights.xml is in the archive, lcpl = license.lcpl is,
\* encKey = the license holds encryption.content_key.encrypted_value,
\* passphrase = window.prompt returns a non-empty string, decryptThrows =
\* crypto.subtle.decrypt of the content key rejects, chapters = the spine
\* yields at least one chapter
Archives ==
    [chapters : BOOLEAN, decryptThrows : BOOLEAN, encKey : BOOLEAN, lcpl : BOOLEAN,
     passphrase : BOOLEAN, rights : BOOLEAN]

\* the files the Load file button is clicked with: a PDF of numPages pages,
\* an EPUB archive, or a text file; readable = file.arrayBuffer() /
\* file.text() and the parser resolve
PlainZip ==
    [chapters |-> TRUE, decryptThrows |-> FALSE, encKey |-> FALSE, lcpl |-> FALSE,
     passphrase |-> FALSE, rights |-> FALSE]
Files ==
    [kind : {"pdf"}, numPages : 0 .. 1, readable : BOOLEAN, zip : {PlainZip}]
    \cup [kind : {"epub"}, numPages : {0}, readable : {TRUE}, zip : Archives]
    \cup [kind : {"epub", "text"}, numPages : {0}, readable : BOOLEAN, zip : {PlainZip}]

NoError == ""
Parsed(tag, asked, tried) ==
    [decrypted |-> tried, error |-> tag, prompted |-> asked]

\* parseEpub(arrayBuffer): the tag of the Error it throws (NoError when it
\* returns), whether it prompted, whether it called decrypt
parseEpub_promptFirst(zip) ==
    IF zip.rights /\ ~zip.lcpl THEN Parsed("DRM_ADOBE", FALSE, FALSE)
    ELSE IF zip.lcpl
    THEN IF ~zip.passphrase THEN Parsed("LCP_CANCELLED", TRUE, FALSE)
         ELSE IF ~zip.encKey THEN Parsed("DRM_LCP_UNSUPPORTED", TRUE, FALSE)
         ELSE IF zip.decryptThrows THEN Parsed("LCP_WRONG_PASSPHRASE", TRUE, TRUE)
         ELSE IF ~zip.chapters THEN Parsed("EXTRACT", TRUE, TRUE)
         ELSE Parsed(NoError, TRUE, TRUE)
    ELSE IF ~zip.chapters THEN Parsed("EXTRACT", FALSE, FALSE)
    ELSE Parsed(NoError, FALSE, FALSE)

parseEpub(zip) ==
    IF zip.rights /\ ~zip.lcpl THEN Parsed("DRM_ADOBE", FALSE, FALSE)
    ELSE IF zip.lcpl
    THEN IF ~zip.encKey THEN Parsed("DRM_LCP_UNSUPPORTED", FALSE, FALSE)
         ELSE IF ~zip.passphrase THEN Parsed("LCP_CANCELLED", TRUE, FALSE)
         ELSE IF zip.decryptThrows THEN Parsed("LCP_WRONG_PASSPHRASE", TRUE, TRUE)
         ELSE IF ~zip.chapters THEN Parsed("EXTRACT", TRUE, TRUE)
         ELSE Parsed(NoError, TRUE, TRUE)
    ELSE IF ~zip.chapters THEN Parsed("EXTRACT", FALSE, FALSE)
    ELSE Parsed(NoError, FALSE, FALSE)

Read(tag, toast, parsed) ==
    [decrypted |-> parsed.decrypted, error |-> tag, prompted |-> parsed.prompted,
     notified |-> toast]
NotParsed == Parsed(NoError, FALSE, FALSE)

\* the click handler of #fileBtn up to its call of loadArticle: the error it
\* stops with (NoError when it goes on to loadArticle) and whether it
\* showed an error toast
readFile_zeroPages(file) ==
    IF ~file.readable THEN Read("UNREADABLE", TRUE, NotParsed)
    ELSE IF file.kind = "pdf"
    THEN Read(NoError, FALSE, NotParsed)
    ELSE IF file.kind = "epub"
    THEN LET result == parseEpub(file.zip)
         IN  Read(result.error,
                  result.error \notin {NoError, "LCP_CANCELLED"}, result)
    ELSE Read(NoError, FALSE, NotParsed)

readFile(file) ==
    IF ~file.readable THEN Read("UNREADABLE", TRUE, NotParsed)
    ELSE IF file.kind = "pdf"
    THEN IF file.numPages = 0 THEN Read("PDF_NO_PAGES", TRUE, NotParsed)
         ELSE Read(NoError, FALSE, NotParsed)
    ELSE IF file.kind = "epub"
    THEN LET result == parseEpub(file.zip)
         IN  Read(result.error,
                  result.error \notin {NoError, "LCP_CANCELLED"}, result)
    ELSE Read(NoError, FALSE, NotParsed)

\* click on #fileBtn with a file chosen: the file is read, and loadArticle
\* is called with its html unless the handler stopped with an error
LoadFile ==
    \E file \in Files :
       \E read \in {readFile(file)} :
          IF read.error = NoError
          THEN LoadArticleAs({1}, {FALSE}, {0}, {0}, {1, 2},
                             LAMBDA c : [op |-> "loadFile",
                                         arg |-> [file |-> file, read |-> read]])
          ELSE /\ lastOp' = [op |-> "loadFile", arg |-> [file |-> file, read |-> read]]
               /\ UNCHANGED <<readerVars, hlVars, audioVars, bmVars, tokenVars, flightVars, libVars>>

\* the plain-text branch of the same handler: the paragraphs of the text,
\* trimmed, each in a <p>; the texts have no line break, so one paragraph
\* or, for a blank text, none
htmlOfText(text) ==
    IF trim(text) = <<>> THEN 0
    ELSE IF text = Example THEN 9
    ELSE 10 + codeOfText(trim(text))

\* click on #fileBtn with a text file chosen
LoadTextFile ==
    \E text \in Texts \cup {Example} :
       LoadArticleOf({htmlOfText(text)}, {FALSE}, {0}, {0}, {1})

\* showInput(): the New button
ShowInput ==
    /\ ~readerHidden
    /\ readerHidden' = TRUE
    /\ currentPage' = 0
    /\ currentArticleId' = NoId
    /\ currentContentHtml' = 0
    /\ positionDirty' = FALSE
    /\ positionTimer' = FALSE
    /\ currentHistoryEntryId' = NoId
    /\ \E endEvent \in BOOLEAN :
         \E r \in {cleanupAudio(audio, endEvent)} :
            audioBecomes(r) /\ dom' = r.dom
    /\ currentBookmarks' = <<>>
    /\ lastOp' = [op |-> "showInput", arg |-> 0]
    /\ UNCHANGED <<totalPages, isFlipping, fontSize, historyPositionTimer, resizeTimeout, resizeTimers,
                   flipTimers, rafQueue, contentCols, histInFlight,
                   patchInFlight, flipTarget, highlights, pendingRange, hlArticleId,
                   hlStore, nextHlId, bmStore, bmWritten, now, tokenVars, flightVars, libVars>>

\* app.js showView('input' | 'library' | 'history'): the reader view is hidden
\* and reader.js is not told
ShowView ==
    /\ ~readerHidden
    /\ readerHidden' = TRUE
    /\ lastOp' = OtherOp
    /\ UNCHANGED <<currentPage, totalPages, isFlipping, fontSize, currentArticleId,
                   currentContentHtml, currentHistoryEntryId, positionDirty, positionTimer,
                   historyPositionTimer, resizeTimeout, resizeTimers, flipTimers, rafQueue,
                   contentCols, histInFlight, patchInFlight, flipTarget, hlVars, audioVars, bmVars, tokenVars, flightVars, libVars>>

(***************************************************************************)
(* HIGHLIGHT MANAGER: handlers.  The manager is initialised                *)
(* (initHighlightManager) and holds no article id: nothing under src calls *)
(* loadArticleHighlights with one, so getStorageKey() is null and          *)
(* saveHighlight / deleteHighlight run without awaiting the server.        *)
(* With an article id the calls are suspended at the server: see          *)
(* ColorClickStart / ColorClickResume and LoadHighlightsStart /            *)
(* LoadHighlightsResponse.                                                 *)
(***************************************************************************)
\* the local mirror after the list became list
setItem(list) ==
    IF hlArticleId # NoId THEN [hlStore EXCEPT ![hlArticleId] = list] ELSE hlStore

\* getStorageKey(): 'reader-highlights-' + currentArticleId, or null
getStorageKey == hlArticleId

\* the outcomes of saveHighlight's localStorage.setItem(key, ...), which is
\* called only with a key and outside any try: it returns, or it throws
\* (quota exceeded) and saveHighlight and handleColorClick reject
setItemThrows == IF getStorageKey # NoId THEN BOOLEAN ELSE {FALSE}

\* loadArticleHighlights(articleId) -> loadHighlights(articleId), the
\* requests answered before anything else happens and the popup closed:
\* with a session and an answer the list the server holds for the article
\* (none, or what the mirror holds), else the local mirror under the key
LoadArticleHighlights ==
    /\ pendingRange = NoRange
    /\ \E articleId \in {NoId, 1}, session \in BOOLEAN :
         \E data \in (IF articleId # NoId /\ session
                      THEN {<<>>, hlStore[articleId]} ELSE {<<>>}) :
            LET list == IF articleId # NoId /\ ~session THEN hlStore[articleId] ELSE data
            IN  /\ hlArticleId' = articleId
                /\ highlights' = list
                /\ dom' = renderAllHighlights(dom, list)
                /\ lastOp' = [op |-> "loadHighlights", arg |-> articleId]
    /\ UNCHANGED <<pendingRange, hlStore, nextHlId, readerVars, audioVars, bmVars,
                   tokenVars, flightVars, libVars>>

\* handleSelectionEnd(), 10 ms after mouseup on the content; range is what
\* window.getSelection() holds, NoRange when it holds nothing
SelectionEndOf(ranges) ==
    /\ nextHlId <= MaxHighlights
    /\ \E range \in ranges :
         pendingRange' = IF \/ range = NoRange
                            \/ (range.sc = range.ec /\ range.so = range.eo)
                            \/ isBlank(rangeToString(dom, range))
                         THEN NoRange
                         ELSE range
    /\ lastOp' = OtherOp
    /\ UNCHANGED <<dom, highlights, hlArticleId, hlStore, nextHlId, readerVars, audioVars, bmVars, tokenVars, flightVars, libVars>>
SelectionEnd == SelectionEndOf(Selections(dom) \cup {NoRange})

\* mousedown outside the popup: hidePopup()
MouseDown ==
    /\ pendingRange' = NoRange
    /\ lastOp' = OtherOp
    /\ UNCHANGED <<dom, highlights, hlArticleId, hlStore, nextHlId, readerVars, audioVars, bmVars, tokenVars, flightVars, libVars>>

\* handleColorClick(color): serializeRange, saveHighlight, applyHighlightMarks,
\* hidePopup
ColorClick(color) ==
    /\ IF pendingRange = NoRange
       THEN /\ UNCHANGED <<dom, highlights, pendingRange, hlStore, nextHlId>>
            /\ lastOp' = OtherOp
       ELSE LET data == serializeRange(dom, pendingRange)
                hlData == [start_xpath |-> data.start_xpath,
                           start_offset |-> data.start_offset,
                           end_xpath |-> data.end_xpath,
                           end_offset |-> data.end_offset,
                           selected_text |-> data.selected_text,
                           color |-> color, id |-> nextHlId]
            IN  /\ nextHlId <= MaxHighlights
                /\ highlights' = Append(highlights, hlData)
                /\ nextHlId' = nextHlId + 1
                /\ \E throws \in setItemThrows :
                     IF throws
                     THEN /\ UNCHANGED <<hlStore, dom, pendingRange>>
                          /\ lastOp' = [op |-> "colorClick", arg |-> 1]
                     ELSE /\ hlStore' = setItem(Append(highlights, hlData))
                          /\ dom' = applyHighlightMarks(dom, pendingRange, color, nextHlId)
                          /\ pendingRange' = NoRange
                          /\ lastOp' = [op |-> "colorClick", arg |-> 0]
    /\ UNCHANGED <<hlArticleId, readerVars, audioVars, bmVars, tokenVars, flightVars, libVars>>

PickColor == \E color \in Colors : ColorClick(color)

\* the Remove button of a sidebar item: the mousedown of the click hides the
\* popup, the click runs deleteHighlight(hl.id)
DeleteClick ==
    /\ \E i \in 1 .. Len(highlights) :
         LET highlightId == highlights[i].id
             kept == SelectSeq(highlights, LAMBDA h : h.id # highlightId)
         IN  /\ highlights' = kept
             /\ hlStore' = setItem(kept)
             /\ dom' = removeHighlightMarks(dom, highlightId)
             /\ lastOp' = OtherOp
    /\ pendingRange' = NoRange
    /\ UNCHANGED <<hlArticleId, nextHlId, readerVars, audioVars, bmVars, tokenVars, flightVars, libVars>>

\* refreshHighlights(), called with the popup closed
RefreshHighlights ==
    /\ pendingRange = NoRange
    /\ dom' = renderAllHighlights(dom, highlights)
    /\ lastOp' = [op |-> "refresh", arg |-> 0]
    /\ UNCHANGED <<highlights, pendingRange, hlArticleId, hlStore, nextHlId,
                   readerVars, audioVars, bmVars, tokenVars, flightVars, libVars>>

(***************************************************************************)
(* NARRATION: the handlers initAudioReader registers, and the engine       *)
(***************************************************************************)
audioStep(name, a) ==
    /\ \E r \in {a} :
         /\ audioBecomes(r)
         /\ dom' = r.dom
         /\ lastOp' = [op |-> name, arg |-> r.spoke]
    /\ UNCHANGED <<readerVars, highlights, pendingRange, hlArticleId, hlStore, nextHlId,
                   bmVars, tokenVars, flightVars, libVars>>

\* click on #listenBtn or #audioPlayPause
PlayPauseClick ==
    IF isPlaying THEN audioStep("pause", pauseAudio(audio))
    ELSE \E endEvent \in BOOLEAN :
         \E first \in firstVisibleSentenceIndexes(dom,
                          IF Len(sentences) = 0 THEN extractSentences(dom) ELSE sentences) :
            audioStep("play", playAudio(audio, first, endEvent))

\* pauseAudio() on its own, whatever the narration state
PauseAudio == audioStep("pause", pauseAudio(audio))

\* click on #audioStop
StopClick == \E endEvent \in BOOLEAN : audioStep("stop", stopAudio(audio, endEvent))

\* click on #audioSkipFwd / #audioSkipBwd
SkipForward == \E endEvent \in BOOLEAN : audioStep("skipForward", skip(audio, 1, endEvent))
SkipBackward == \E endEvent \in BOOLEAN : audioStep("skipBackward", skip(audio, -1, endEvent))

\* click on #audioSpeed
CycleSpeed == \E endEvent \in BOOLEAN : audioStep("speed", cycleSpeed(audio, endEvent))

\* change of #audioVoice
VoiceChange == \E endEvent \in BOOLEAN : audioStep("voice", restartSentence(audio, endEvent))

\* the engine begins to speak the head of its queue: utterance.onstart
UtteranceStart ==
    /\ synthQueue # <<>> /\ ~Head(synthQueue).started /\ ~synthPaused
    /\ audioStep("onstart",
                 highlightSentence([audio EXCEPT !.synthQueue[1].started = TRUE],
                                   Head(synthQueue).index))

\* the engine has spoken the head of its queue to the end
UtteranceFinish ==
    /\ synthQueue # <<>> /\ Head(synthQueue).started /\ ~synthPaused
    /\ audioStep("finish", [audio EXCEPT !.synthQueue = Tail(@),
                                         !.pendingEnds = @ \cup {Head(synthQueue).index}])

\* an end event is delivered: utterance.onend
UtteranceEnd ==
    \E index \in pendingEnds, endEvent \in BOOLEAN :
        audioStep("onend", onend([audio EXCEPT !.pendingEnds = @ \ {index}], index, endEvent))

(***************************************************************************)
(* LIBRARY: deferred delete with undo (library.js removeArticle) and the   *)
(* toast (toast.js).  The clock counts seconds here.                       *)
(***************************************************************************)
ArticleIds == {1, 2}     \* the articles of the library when it is opened
DeleteDelay == 5         \* setTimeout(..., 5000) of removeArticle
UndoDuration == 5        \* duration: 5000 of the toast with Undo
DefaultDuration == 3     \* options.duration ?? 3000
MinResume == 1           \* Math.max(remainingTime, 1000)

\* toastTimer: the pending dismiss timer, with the time it is due and whether
\* mouseleave started it (it was then set after the delete timer)
NoToastTimer == [due |-> -1, resumed |-> FALSE]

toast ==
    [undoCallback |-> undoCallback, toastTimer |-> toastTimer, isHovering |-> isHovering,
     remainingTime |-> remainingTime, pauseTimestamp |-> pauseTimestamp]
toastBecomes(r) ==
    /\ undoCallback' = r.undoCallback /\ toastTimer' = r.toastTimer
    /\ isHovering' = r.isHovering /\ remainingTime' = r.remainingTime
    /\ pauseTimestamp' = r.pauseTimestamp

\* dismissToast()
dismissToast(t) ==
    [t EXCEPT !.toastTimer = NoToastTimer, !.undoCallback = NoId, !.remainingTime = 0,
              !.pauseTimestamp = 0, !.isHovering = FALSE]

\* startDismissTimer(ms) at time at
startDismissTimer(t, ms, at, afterLeave) ==
    [t EXCEPT !.remainingTime = ms, !.pauseTimestamp = at,
              !.toastTimer = [due |-> at + ms, resumed |-> afterLeave]]

\* showToast(message, type, { undoCallback, duration }): onUndo is the id of
\* the article the undo closure restores, NoId without a callback
showToast(t, onUndo, duration, at) ==
    startDismissTimer([t EXCEPT !.undoCallback = onUndo, !.isHovering = FALSE],
                      duration, at, FALSE)

\* clearTimeout(deleteTimer): the timer of the handle, when it is pending,
\* is the last one set
clearDeleteTimer(timers, handle) ==
    IF handle /\ timers # <<>> THEN Front(timers) ELSE timers

\* removeArticle(card)
RemoveArticle ==
    \E articleId \in articles :
        /\ deleted' = IF deleteTimer /\ pendingDeleteId # NoId
                      THEN deleted \cup {pendingDeleteId} ELSE deleted
        /\ articles' = articles \ {articleId}
        /\ pendingDeleteId' = articleId
        /\ toastBecomes(showToast(toast, articleId, UndoDuration, now))
        /\ deleteTimers' = Append(clearDeleteTimer(deleteTimers, deleteTimer),
                                  [id |-> articleId, due |-> now + DeleteDelay])
        /\ deleteTimer' = TRUE
        /\ lastOp' = [op |-> "removeArticle", arg |-> articleId]
        /\ UNCHANGED <<readerVars, hlVars, audioVars, bmVars, tokenVars, flightVars>>

\* click on #toastUndo: the undo callback of removeArticle, which ends with
\* showToast('Article restored', 'success'), then dismissToast()
UndoClick ==
    /\ undoCallback # NoId
    /\ deleteTimers' = clearDeleteTimer(deleteTimers, deleteTimer)
    /\ pendingDeleteId' = NoId
    /\ articles' = articles \cup {undoCallback}
    /\ toastBecomes(dismissToast(showToast(toast, NoId, DefaultDuration, now)))
    /\ lastOp' = [op |-> "undo", arg |-> undoCallback]
    /\ UNCHANGED <<deleteTimer, deleted, readerVars, hlVars, audioVars, bmVars, tokenVars, flightVars>>

\* mouseenter on #toast
MouseEnter ==
    /\ ~isHovering
    /\ IF undoCallback = NoId THEN UNCHANGED toastVars
       ELSE toastBecomes([toast EXCEPT !.isHovering = TRUE,
                                       !.remainingTime = Max(0, @ - (now - pauseTimestamp)),
                                       !.toastTimer = NoToastTimer])
    /\ lastOp' = [op |-> "mouseenter", arg |-> 0]
    /\ UNCHANGED <<articles, deleteTimer, pendingDeleteId, deleteTimers, deleted,
                   readerVars, hlVars, audioVars, bmVars, tokenVars, flightVars>>

\* mouseleave on #toast
MouseLeave ==
    /\ isHovering
    /\ toastBecomes(startDismissTimer([toast EXCEPT !.isHovering = FALSE],
                                      Max(remainingTime, MinResume), now, TRUE))
    /\ lastOp' = [op |-> "mouseleave", arg |-> 0]
    /\ UNCHANGED <<articles, deleteTimer, pendingDeleteId, deleteTimers, deleted,
                   readerVars, hlVars, audioVars, bmVars, tokenVars, flightVars>>

\* timers that are due run in the order of their due times, and in the
\* order they were set when these are equal
toastTimerFirst(d) ==
    /\ toastTimer # NoToastTimer
    /\ \/ toastTimer.due < d.due
       \/ toastTimer.due = d.due /\ ~toastTimer.resumed

\* the dismiss timer of the toast fires: dismissToast()
ToastTimerFire ==
    /\ toastTimer # NoToastTimer /\ now >= toastTimer.due
    /\ \A i \in DOMAIN deleteTimers : toastTimerFirst(deleteTimers[i])
    /\ toastBecomes(dismissToast(toast))
    /\ lastOp' = [op |-> "toastTimer", arg |-> 0]
    /\ UNCHANGED <<articles, deleteTimer, pendingDeleteId, deleteTimers, deleted,
                   readerVars, hlVars, audioVars, bmVars, tokenVars, flightVars>>

\* the timer of removeArticle fires: actualDelete(articleId),
\* pendingDeleteId = null, deleteTimer = null
DeleteTimerFire ==
    /\ deleteTimers # <<>>
    /\ now >= Head(deleteTimers).due /\ ~toastTimerFirst(Head(deleteTimers))
    /\ deleted' = deleted \cup {Head(deleteTimers).id}
    /\ deleteTimers' = Tail(deleteTimers)
    /\ pendingDeleteId' = NoId
    /\ deleteTimer' = FALSE
    /\ lastOp' = [op |-> "deleteTimer", arg |-> Head(deleteTimers).id]
    /\ UNCHANGED <<articles, toastVars, readerVars, hlVars, audioVars, bmVars, tokenVars, flightVars>>

\* a second passes
Second ==
    /\ now < MaxNow + DeleteDelay
    /\ now' = now + 1
    /\ lastOp' = OtherOp
    /\ UNCHANGED <<readerVars, hlVars, audioVars, currentBookmarks, bmStore, bmWritten,
                   tokenVars, flightVars, libVars>>

InitReader ==
    /\ currentPage = 0 /\ totalPages = 1 /\ isFlipping = FALSE
    /\ fontSize = DefaultFontSize
    /\ currentArticleId = NoId /\ currentContentHtml = 0 /\ currentHistoryEntryId = NoId
    /\ positionDirty = FALSE /\ positionTimer = FALSE /\ historyPositionTimer = FALSE
    /\ resizeTimeout = FALSE /\ resizeTimers = <<>> /\ flipTimers = 0 /\ rafQueue = <<>>
    /\ readerHidden = TRUE /\ contentCols = 0
    /\ histInFlight = {} /\ patchInFlight = {} /\ flipTarget = NoFlip

InitHL ==
    /\ dom = EmptyContent /\ highlights = <<>> /\ pendingRange = NoRange
    /\ hlArticleId = NoId /\ hlStore = [a \in Contents |-> <<>>] /\ nextHlId = 1

InitAudio ==
    /\ isPlaying = FALSE /\ isPaused = FALSE /\ sentences = <<>> /\ currentSentenceIndex = 0
    /\ sentenceRangeData = NoRangeData /\ contentElement = FALSE /\ speedIndex = 1
    /\ synthQueue = <<>> /\ synthPaused = FALSE /\ pendingEnds = {}
    /\ highlightElements = <<>>

InitBookmarks ==
    /\ currentBookmarks = <<>> /\ bmStore = [k \in {} |-> <<>>] /\ now = 0
    /\ bmWritten = [c \in Contents |-> <<>>]

\* initReader() ends with refreshCachedToken()
InitToken == cachedAccessToken = FALSE /\ tokenRefreshing = TRUE

InitLibrary ==
    /\ articles = ArticleIds /\ deleteTimer = FALSE /\ pendingDeleteId = NoId
    /\ deleteTimers = <<>> /\ deleted = {}
    /\ undoCallback = NoId /\ toastTimer = NoToastTimer /\ isHovering = FALSE
    /\ remainingTime = 0 /\ pauseTimestamp = 0

\* no call is suspended when the page has loaded
InitFlight == saveInFlight = {} /\ hlLoads = {} /\ hlSaves = <<>>

Init ==
    /\ InitReader /\ InitHL /\ InitAudio /\ InitBookmarks /\ InitToken /\ InitLibrary
    /\ InitFlight
    /\ lastOp = OtherOp

Next ==
    \/ FlipNext \/ FlipPrev \/ KeyHome \/ KeyEnd \/ InternalLink \/ ReleaseFlip
    \/ HistoryTimerFire \/ HistoryResponse
    \/ Resize \/ ResizeFire \/ FontSizeDown \/ FontSizeUp \/ ToggleFont \/ Frame
    \/ LoadArticle \/ ShowInput \/ ShowView

Spec == Init /\ [][Next]_vars

\* The highlight manager over the HTML document, with the reader reduced to
\* loading it and recomputing the pagination in the animation frames
LoadContent == LoadArticleOf({1}, {FALSE}, {0}, {0}, {1})
FrameSignedOut == FrameOf({FALSE})

NextHL ==
    \/ SelectionEnd \/ MouseDown \/ PickColor \/ DeleteClick
    \/ RefreshHighlights
    \/ LoadContent \/ FrameSignedOut

SpecHL == Init /\ [][NextHL]_vars

\* The same over the document with inline SVG
LoadForeign == LoadArticleOf({2}, {FALSE}, {0}, {0}, {1})

NextForeign ==
    \/ SelectionEnd \/ MouseDown \/ PickColor \/ DeleteClick
    \/ RefreshHighlights
    \/ LoadForeign \/ FrameSignedOut

SpecForeign == Init /\ [][NextForeign]_vars

\* setTimeout callbacks run: the release timer of every accepted flip fires
FairSpec == Spec /\ WF_vars(ReleaseFlip)

\* the narration engine over a document of three sentences
LoadNarrated == LoadArticleOf({3}, {FALSE}, {0}, {0}, {1})
NextAudio ==
    \/ PlayPauseClick \/ PauseAudio \/ StopClick \/ SkipForward \/ SkipBackward
    \/ CycleSpeed \/ VoiceChange
    \/ UtteranceStart \/ UtteranceFinish \/ UtteranceEnd
    \/ LoadNarrated \/ FrameSignedOut \/ ShowInput
SpecAudio == Init /\ [][NextAudio]_vars

\* persistence of annotations over the document with inline SVG: highlights
\* with and without an article id in the highlight manager, bookmarks of a
\* document that is not in the library
NextMirror ==
    \/ SelectionEnd \/ PickColor \/ LoadArticleHighlights \/ ToggleBookmark
    \/ LoadForeign \/ FrameSignedOut
SpecMirror == Init /\ [][NextMirror]_vars

\* bookmarks of a one-page document that is loaded from the library or
\* pasted, and saved to or removed from the library
LoadEither == LoadArticleOf({1}, BOOLEAN, {0}, {0}, {1})
NextBookmarks ==
    \/ ToggleBookmark \/ HandleSave \/ LoadEither \/ FrameSignedOut \/ ShowInput
SpecBookmarks == Init /\ [][NextBookmarks]_vars

\* bookmarks on the pages of a pasted document of two pages
LoadTwoPages == LoadArticleOf({1}, {FALSE}, {0}, {0}, {2})
NextToggle ==
    \/ ToggleBookmark \/ FlipNext \/ FlipPrev \/ ReleaseFlip
    \/ LoadTwoPages \/ FrameSignedOut
SpecToggle == Init /\ [][NextToggle]_vars

\* removal and undo in the library
NextLibrary ==
    \/ RemoveArticle \/ UndoClick \/ MouseEnter \/ MouseLeave
    \/ ToastTimerFire \/ DeleteTimerFire \/ Second
SpecLibrary == Init /\ [][NextLibrary]_vars

\* narration of text files
NextText ==
    \/ LoadTextFile \/ FrameSignedOut \/ PlayPauseClick \/ StopClick
    \/ UtteranceStart \/ UtteranceFinish \/ UtteranceEnd
SpecText == Init /\ [][NextText]_vars

\* narration of documents whose sentences repeat or cannot be located: the
\* texts "a.a" and ".a.", and the document with white space between inline
\* elements
LoadSpans ==
    LoadArticleOf({3, 8, 10 + codeOfText(<<"a", ".", "a">>), 10 + codeOfText(<<".", "a", ".">>)},
                  {FALSE}, {0}, {0}, {1})
NextSpans ==
    \/ LoadSpans \/ FrameSignedOut \/ PlayPauseClick \/ StopClick
    \/ SkipForward \/ SkipBackward
    \/ UtteranceStart \/ UtteranceFinish \/ UtteranceEnd
SpecSpans == Init /\ [][NextSpans]_vars

\* links followed in a document of up to two pages, with the window resized
LoadLinked == LoadArticleOf({1}, {FALSE}, {0}, {0}, {1, 2})
NextLinks ==
    \/ LinkClick \/ FlipNext \/ ReleaseFlip \/ Resize \/ ResizeFire
    \/ LoadLinked \/ FrameSignedOut
SpecLinks == Init /\ [][NextLinks]_vars

\* the resize debounce and the font handlers, with the clock
NextResize ==
    \/ Resized \/ ResizeTimerDue \/ Tick \/ FontStepped \/ FontToggled
    \/ LoadLinked \/ FrameSignedOut
SpecResize == Init /\ [][NextResize]_vars

\* files read into the reader: the Load file button, with the pages of the
\* loaded document flipped and the reader left for the input view
NextIngest ==
    \/ LoadFile \/ FrameSignedOut \/ FlipNext \/ FlipPrev \/ ReleaseFlip \/ ShowInput
SpecIngest == Init /\ [][NextIngest]_vars

\* position saves of a library article of one or two pages: flips, the
\* debounce timer, the PATCH and its response, the final flush on unload
LoadSaved == LoadArticleOf({1}, {TRUE}, {0}, {0}, {1, 2})
NextSave ==
    \/ FlipNext \/ FlipPrev \/ ReleaseFlip
    \/ PositionTimerFire \/ PatchResponse
    \/ BeforeUnload \/ RefreshCachedToken
    \/ LoadSaved \/ FrameSignedOut \/ ShowInput
SpecSave == Init /\ [][NextSave]_vars

\* the debounce timer fires and the server answers
FairSave == SpecSave /\ WF_vars(PositionTimerFire) /\ WF_vars(PatchResponse)

\* narration across content swaps: a one-sentence and a three-sentence
\* document are loaded in any order, with the reader left in between
LoadSwap == LoadArticleOf({1, 3}, {FALSE}, {0}, {0}, {1})
NextSwap ==
    \/ PlayPauseClick \/ StopClick
    \/ UtteranceStart \/ UtteranceFinish \/ UtteranceEnd
    \/ LoadSwap \/ FrameSignedOut \/ ShowInput
SpecSwap == Init /\ [][NextSwap]_vars

(***************************************************************************)
(* CLAIMS: flipbook engine                                                 *)
(***************************************************************************)

\* C1: after any sequence of pagination recomputes, flips, internal-link
\* navigation, loads with a restored page and showInput, the page state
\* satisfies 0 <= currentPage < totalPages and totalPages >= 1.
C1_PageInRange ==
    /\ 0 <= currentPage
    /\ currentPage < totalPages
    /\ totalPages >= 1

\* a flip to a later page is still in flight and a recompute (or a clamped
\* page restore) has since brought the document down to a single page
C1_Witness ==
    /\ ~readerHidden
    /\ currentContentHtml # 0
    /\ isFlipping
    /\ flipTarget >= 1
    /\ totalPages = 1
    /\ currentPage = 0

\* C2 as stated: when the release timer fires, the current page is the
\* target of the accepted flip.
C2_PageIsTargetAtRelease ==
    [][flipTimers' < flipTimers => currentPage = flipTarget]_vars

\* C2 as amended: an accepted flipTo sets the in-flight flag and arms one
\* release timer; the flag stays set until that timer fires; a flip request
\* arriving while a flip is in flight changes nothing and the release itself
\* changes no page (nothing was queued), so only a recompute, a page restore
\* or showInput can move the page while the flip is in flight; and the flag
\* is eventually cleared after every accepted flip.
C2_InFlight ==
    /\ [][(lastOp'.op = "flipTo" /\ currentPage' # currentPage)
            => (isFlipping' /\ flipTimers' = flipTimers + 1 /\ currentPage' = lastOp'.arg)]_vars
    /\ [][(isFlipping /\ ~(flipTimers' < flipTimers)) => isFlipping']_vars
    /\ [][(isFlipping /\ lastOp'.op = "flipTo")
            => UNCHANGED <<currentPage, isFlipping, flipTimers, flipTarget>>]_vars
    /\ [][flipTimers' < flipTimers => (currentPage' = currentPage /\ ~isFlipping')]_vars
    /\ (isFlipping ~> ~isFlipping)

\* a flip to page 1 is in flight and a request for another valid page has
\* just been dropped
C2_Witness ==
    /\ isFlipping
    /\ currentPage = flipTarget
    /\ lastOp.op = "flipTo"
    /\ lastOp.arg # currentPage
    /\ lastOp.arg >= 0
    /\ lastOp.arg < totalPages

\* C3: flipTo(page) changes nothing (current page, in-flight flag, dirty
\* flag, pending position-save timers, release timers) when a flip is in
\* flight, when page < 0 or page >= totalPages, or when page = currentPage.
C3_RejectedFlipIsNoOp ==
    [][(/\ lastOp'.op = "flipTo"
        /\ \/ isFlipping
           \/ lastOp'.arg < 0
           \/ lastOp'.arg >= totalPages
           \/ lastOp'.arg = currentPage)
        => UNCHANGED <<currentPage, isFlipping, positionDirty, positionTimer,
                       historyPositionTimer, flipTimers>>]_vars

\* flipTo(totalPages) was requested on the last page of a document of
\* several pages, with no flip in flight
C3_Witness ==
    /\ lastOp.op = "flipTo"
    /\ lastOp.arg = totalPages
    /\ totalPages > 1
    /\ currentPage = totalPages - 1
    /\ ~isFlipping

\* flipTo(-1) was requested on page 0 of a library article
C3_WitnessFirstPage ==
    /\ lastOp.op = "flipTo"
    /\ lastOp.arg = -1
    /\ currentPage = 0
    /\ currentArticleId # NoId
    /\ ~isFlipping

(***************************************************************************)
(* CLAIMS: highlight manager                                               *)
(***************************************************************************)

\* C4: for every range R with both containers inside the content root,
\* deserializeRange(serializeRange(R)) has the start container, start
\* offset, end container and end offset of R, the tree being the same for
\* both calls.
C4_RoundTrip ==
    \A r \in Ranges(dom) : deserializeRange(dom, serializeRange(dom, r)) = r

\* C5: renderAllHighlights run again right after a run yields the same marks
\* (the DOM a run leaves is the DOM the next run leaves), and a run changes
\* neither the stored highlight list nor the local mirror.
C5_RenderIdempotent ==
    [][lastOp'.op = "refresh"
        => /\ dom' = renderAllHighlights(dom, highlights)
           /\ renderAllHighlights(dom', highlights') = dom'
           /\ UNCHANGED <<highlights, hlStore>>]_vars

\* a re-render has run over two stored highlights that both came out as marks
C5_Witness ==
    /\ lastOp.op = "refresh"
    /\ Len(highlights) = 2
    /\ \A i \in 1 .. 2 : marksOf(dom, highlights[i].id) # <<>>
    /\ Len(marksOf(dom, 0)) >= 3

\* C6: after every pagination recompute and after every content load the
\* document is the re-rendered one (marks stripped, every stored highlight
\* whose anchor resolves wrapped again in marks tagged with its id) and the
\* stored list is what it was.
C6_RerenderedAfterRecompute ==
    [][(\/ lastOp'.op = "loadArticle"
        \/ (rafQueue # <<>> /\ rafQueue' # rafQueue))
        => /\ dom' = renderAllHighlights(dom', highlights')
           /\ highlights' = highlights]_vars

\* the text nodes range r touches, in document order
spannedTextNodes(n, r) ==
    SelectSeq(textNodesUnder(n, <<>>),
              LAMBDA q : /\ PointLE(pt(r.sc, r.so), pt(q, Len(NodeAt(n, q).data)))
                         /\ PointLE(pt(q, 0), pt(r.ec, r.eo)))

\* C7: a colour pick over a range that spans k text nodes leaves exactly k
\* marks of the new highlight, one per text node, each wrapping only the
\* selected part of its node and carrying the new id and the colour; removing
\* the highlight gives back the DOM as it was before the pick.
C7_MarkPerTextNode ==
    [][nextHlId' = nextHlId + 1
        => LET spanned == spannedTextNodes(dom, pendingRange)
               marks == marksOf(dom', nextHlId)
           IN  /\ Len(marks) = Len(spanned)
               /\ \A i \in 1 .. Len(marks) :
                    /\ marks[i].kids = << TextNode(selectedPart(dom, pendingRange, spanned[i])) >>
                    /\ marks[i].color = highlights'[Len(highlights')].color
               /\ removeHighlightMarks(dom', nextHlId) = dom]_vars


(***************************************************************************)
(* NARRATION CLAIMS (SpecAudio)                                            *)
(***************************************************************************)
narrationState(playing, paused) ==
    IF playing THEN "playing" ELSE IF paused THEN "paused" ELSE "stopped"

\* C8: a completion callback hands the next sentence to the engine only when
\* narration is playing and not paused at that moment; while narration is
\* paused or stopped no callback, engine event, rate or voice change speaks a
\* sentence and no sentence begins to be spoken: only play (or a skip, which
\* sets the state to playing) speaks again.
C8_AdvanceOnlyWhilePlaying ==
    /\ [][(lastOp'.op = "onend" /\ lastOp'.arg # NoSpeech) => (isPlaying /\ ~isPaused)]_vars
    /\ [][(~isPlaying /\ lastOp'.op \in {"onend", "onstart", "finish", "speed", "voice",
                                         "pause", "stop"})
            => lastOp'.arg = NoSpeech]_vars
    /\ [][lastOp'.op = "onstart" => isPlaying]_vars

\* an end event arrived while a later sentence was paused mid-utterance, and
\* nothing was spoken
C8_Witness ==
    /\ lastOp.op = "onend" /\ lastOp.arg = NoSpeech
    /\ isPaused /\ synthQueue # <<>> /\ Head(synthQueue).started

\* an end event arrived after stop, and nothing was spoken
C8_WitnessStop ==
    /\ lastOp.op = "onend" /\ lastOp.arg = NoSpeech
    /\ ~isPlaying /\ ~isPaused /\ sentences # <<>> /\ synthQueue = <<>>

\* C9: isPlaying and isPaused are never both true; the narration state changes
\* only stopped->playing by play, playing->paused by pause, paused->playing by
\* play (resume) or a skip, and any->stopped by stop, the end of the text or a
\* content swap; pause in the stopped state changes nothing; pause and resume
\* leave currentSentenceIndex unchanged.
C9_PlaybackStateMachine ==
    /\ [](~(isPlaying /\ isPaused))
    /\ [][LET s == narrationState(isPlaying, isPaused)
              t == narrationState(isPlaying', isPaused')
          IN  s # t =>
                \/ s = "stopped" /\ t = "playing" /\ lastOp'.op = "play"
                \/ s = "playing" /\ t = "paused" /\ lastOp'.op = "pause"
                \/ s = "paused" /\ t = "playing"
                     /\ lastOp'.op \in {"play", "skipForward", "skipBackward"}
                \/ t = "stopped"
                     /\ lastOp'.op \in {"stop", "onend", "loadArticle", "showInput"}]_vars
    /\ [][(lastOp'.op = "pause" /\ ~isPlaying /\ ~isPaused) => UNCHANGED audioVars]_vars
    /\ [][(lastOp'.op = "pause" \/ (lastOp'.op = "play" /\ isPaused))
            => currentSentenceIndex' = currentSentenceIndex]_vars

\* narration was paused in the middle of the second sentence
C9_Witness ==
    /\ lastOp.op = "pause" /\ isPaused /\ ~isPlaying /\ currentSentenceIndex = 1
    /\ synthQueue # <<>> /\ Head(synthQueue).started /\ synthPaused

\* pauseAudio() ran in the stopped state with sentences segmented
C9_WitnessStopped ==
    lastOp.op = "pause" /\ ~isPlaying /\ ~isPaused /\ sentences # <<>>

\* C10: a skip cancels the current utterance and moves the sentence index by
\* one, clamped into [0, len-1]; from playing or paused the state becomes
\* playing and the target sentence is the one the engine speaks (it heads the
\* queue of an engine that is not paused); from stopped only the index changes
\* and nothing is spoken; with no sentences nothing changes.
C10_SkipSpeaksTarget ==
    [][lastOp'.op \in {"skipForward", "skipBackward"} =>
         LET step == IF lastOp'.op = "skipForward" THEN 1 ELSE -1
             target == Max(0, Min(currentSentenceIndex + step, Len(sentences) - 1))
         IN  IF Len(sentences) = 0 THEN UNCHANGED audioVars
             ELSE /\ currentSentenceIndex' = target
                  /\ sentences' = sentences
                  /\ IF isPlaying \/ isPaused
                     THEN /\ isPlaying' /\ ~isPaused'
                          /\ synthQueue' = <<[index |-> target, started |-> FALSE,
                                               text |-> sentences[target + 1]]>>
                          /\ ~synthPaused'
                     ELSE /\ ~isPlaying' /\ ~isPaused'
                          /\ synthQueue' = <<>> /\ lastOp'.arg = NoSpeech]_vars

\* C11: from any narration state the stop button leaves narration stopped
\* (neither playing nor paused) with the sentence index 0, nothing queued in
\* the speech engine and no active-sentence mark in the document.
C11_StopResets ==
    [][lastOp'.op = "stop" =>
         /\ ~isPlaying' /\ ~isPaused'
         /\ currentSentenceIndex' = 0
         /\ synthQueue' = <<>>
         /\ highlightElements' = <<>>
         /\ audioMarksOf(dom') = <<>>]_vars

\* stop was pressed after a sentence had been marked: the text of the mark is
\* back in a text node that replaced the first captured one
C11_Witness ==
    /\ lastOp.op = "stop" /\ sentenceRangeData.built
    /\ pathOfRef(dom, 1) = NullNode
    /\ pendingEnds # {}

\* the sentences of each document, and of the one in the reader
sentencesOf == [c \in Contents |-> extractSentences(ParseHtml(c))]
sentencesOfCurrent ==
    IF currentContentHtml = 0 THEN <<>> ELSE sentencesOf[currentContentHtml]

\* C12: a content swap (a load, or leaving the reader through showInput)
\* leaves narration stopped with nothing queued and with the cached sentence
\* list and range data empty; a play that starts narration afresh speaks
\* from a sentence list and range data segmented from the document then in
\* the reader, and every utterance in the engine's queue carries a sentence
\* of the document in the reader, never one of a document swapped out.
C12_SwapResetsNarration ==
    [][/\ lastOp'.op \in {"loadArticle", "showInput"} =>
            /\ ~isPlaying' /\ ~isPaused' /\ synthQueue' = <<>>
            /\ sentences' = <<>> /\ sentenceRangeData' = NoRangeData
            /\ currentSentenceIndex' = 0
       /\ lastOp'.op = "play" /\ lastOp'.arg # NoSpeech =>
            /\ sentences' = sentencesOfCurrent
            /\ sentenceRangeData'.built
       /\ \A i \in 1 .. Len(synthQueue') :
            /\ synthQueue'[i].text = sentences'[synthQueue'[i].index + 1]
            /\ \E j \in 1 .. Len(sentencesOfCurrent') :
                 sentencesOfCurrent'[j] = synthQueue'[i].text]_vars

\* the three-sentence document was being narrated when the one-sentence
\* document was loaded; play then queued the new document's sentence while
\* the end event of the cancelled utterance is still to be delivered
C12_Witness ==
    /\ currentContentHtml = 1 /\ isPlaying
    /\ synthQueue # <<>> /\ Head(synthQueue).text = sentencesOfCurrent[1]
    /\ 1 \in pendingEnds

(***************************************************************************)
(* CLAIMS: teardown, position saves, persistence                           *)
(***************************************************************************)

\* C13: when showInput has run, narration is cancelled, no annotation mark
\* (active-sentence mark or user highlight mark) is left in the document, no
\* debounced timer (resize recompute, library position save, history
\* position save) is pending, and the content, the article identity, the
\* history entry and the bookmarks of the old document are discarded.
C13_TeardownComplete ==
    [][lastOp'.op = "showInput" =>
         /\ ~isPlaying' /\ ~isPaused' /\ synthQueue' = <<>>
         /\ audioMarksOf(dom') = <<>> /\ marksOf(dom', 0) = <<>>
         /\ ~resizeTimeout' /\ ~positionTimer' /\ ~historyPositionTimer'
         /\ currentContentHtml' = 0 /\ currentArticleId' = NoId
         /\ currentHistoryEntryId' = NoId
         /\ currentBookmarks' = <<>>]_vars

\* the safety half of the debounce: an accepted flip on a library article
\* marks the position dirty and leaves one timer pending without sending
\* anything; a position PATCH is sent only by the timer firing, which
\* consumes the timer and sends one PATCH carrying the article id, the
\* 1-based page and the total pages of that moment
DebouncedPatch ==
    [][/\ (lastOp'.op = "flipTo" /\ currentPage' # currentPage /\ currentArticleId # NoId)
            => positionTimer' /\ positionDirty' /\ patchInFlight' = patchInFlight
       /\ (patchInFlight' \ patchInFlight # {})
            => /\ lastOp'.op = "positionPatch"
               /\ positionTimer /\ ~positionTimer'
               /\ patchInFlight' \ patchInFlight =
                      {[id |-> currentArticleId, current_page |-> currentPage + 1,
                        total_pages |-> totalPages]}]_vars

C15_FinalFlush ==
    [][(/\ lastOp.op = "positionSaved" /\ lastOp.arg # currentPage + 1
        /\ currentArticleId # NoId /\ cachedAccessToken
        /\ lastOp'.op = "beforeunload")
           => lastOp'.arg = currentPage + 1]_vars

\* C16: whatever the outcome of the writes (remote write rejected, local
\* storage write throwing), a bookmark toggle leaves the toggled list in
\* memory, and a colour pick on a pending selection completes: the new
\* highlight is in the in-memory list, its marks are applied, the popup is
\* closed and no error has propagated.
C16_PersistenceNeverBlocks ==
    [][/\ lastOp'.op = "toggleBookmark"
            => currentBookmarks' = toggleBookmark(currentBookmarks, currentPage, now')
       /\ (lastOp'.op = "colorClick" /\ pendingRange # NoRange)
            => /\ Len(highlights') = Len(highlights) + 1
               /\ dom' = applyHighlightMarks(dom, pendingRange,
                                             highlights'[Len(highlights')].color,
                                             highlights'[Len(highlights')].id)
               /\ pendingRange' = NoRange
               /\ lastOp'.arg = 0]_vars

\* C18: a highlight created while the highlight manager holds no article
\* id is written to the local mirror: some item of the mirror holds the
\* list with the new highlight.
C18_HighlightMirroredByHash ==
    [][(lastOp'.op = "colorClick" /\ lastOp'.arg = 0 /\ hlArticleId = NoId)
           => \E k \in DOMAIN hlStore' : hlStore'[k] = highlights']_vars

\* C17: whenever a document is loaded, from the library or pasted, the
\* bookmarks loaded are the ones the last toggle on that content wrote to
\* the local mirror.
C17_BookmarksRoundTrip ==
    [][lastOp'.op = "loadArticle"
           => currentBookmarks' = bmWritten[currentContentHtml']]_vars

\* C19: a toggle flips the membership of page currentPage + 1 and leaves
\* the bookmarks of every other page as they were, so that a second toggle
\* on the same page restores the bookmarked pages.
C19_ToggleFlipsOnePage ==
    [][lastOp'.op = "toggleBookmark"
           => LET before == bookmarkedPages(currentBookmarks)
                  after == bookmarkedPages(currentBookmarks')
                  pageNum == currentPage + 1
              IN  /\ after \ {pageNum} = before \ {pageNum}
                  /\ (pageNum \in after) = (pageNum \notin before)
                  /\ bookmarkedPages(toggleBookmark(currentBookmarks', currentPage, now'))
                        = before]_vars

\* a step of the hidden reader in which paginate() runs: the resize timer
\* fires, or an animation frame runs a callback that calls it
paginateRuns ==
    \/ resizeTimeout /\ ~resizeTimeout'
    \/ /\ rafQueue' # rafQueue
       /\ \E i \in 1 .. Len(rafQueue) : rafQueue[i].k \in {"paginate", "loadInner"}

\* C20: when paginate() runs while the viewport has zero width (the reader
\* view is hidden), it leaves totalPages and currentPage as they were.
C20_PaginateAbortsOnZeroViewport ==
    [][(offsetWidth = 0 /\ readerHidden' /\ paginateRuns)
           => UNCHANGED <<currentPage, totalPages>>]_vars

(***************************************************************************)
(* CLAIMS: ingestion, links, segmentation, debounce, utterance chains      *)
(***************************************************************************)
\* C21: the protection of an EPUB is classified in a fixed order: rights.xml
\* without license.lcpl fails with DRM_ADOBE; license.lcpl without an
\* encrypted content key fails with DRM_LCP_UNSUPPORTED before any prompt; a
\* cancelled prompt fails with LCP_CANCELLED; a content-key decryption that
\* throws fails with LCP_WRONG_PASSPHRASE; an archive with neither file is
\* parsed with no prompt and no decryption.
C21_ProtectionClassified ==
    [][(lastOp'.op = "loadFile" /\ lastOp'.arg.file.kind = "epub"
          /\ lastOp'.arg.file.readable)
           => LET zip == lastOp'.arg.file.zip
                  read == lastOp'.arg.read
              IN  /\ (zip.rights /\ ~zip.lcpl) => read.error = "DRM_ADOBE"
                  /\ (zip.lcpl /\ ~zip.encKey)
                        => read.error = "DRM_LCP_UNSUPPORTED" /\ ~read.prompted
                  /\ (zip.lcpl /\ zip.encKey /\ ~zip.passphrase)
                        => read.error = "LCP_CANCELLED" /\ ~read.decrypted
                  /\ (zip.lcpl /\ zip.encKey /\ zip.passphrase /\ zip.decryptThrows)
                        => read.error = "LCP_WRONG_PASSPHRASE"
                  /\ (~zip.rights /\ ~zip.lcpl)
                        => /\ ~read.prompted /\ ~read.decrypted
                           /\ read.error \notin {"DRM_ADOBE", "DRM_LCP_UNSUPPORTED",
                                                 "LCP_CANCELLED", "LCP_WRONG_PASSPHRASE"}]_vars

\* an archive with both rights.xml and a license without content key, the
\* user ready to cancel the prompt, was refused as unsupported LCP
C21_Witness ==
    /\ lastOp.op = "loadFile"
    /\ lastOp.arg.file.kind = "epub"
    /\ lastOp.arg.file.zip.rights /\ lastOp.arg.file.zip.lcpl
    /\ ~lastOp.arg.file.zip.encKey /\ ~lastOp.arg.file.zip.passphrase
    /\ lastOp.arg.read.error = "DRM_LCP_UNSUPPORTED"

\* the files whose ingestion fails: unreadable, a PDF of no pages, an EPUB
\* that is protected by Adobe DRM or by an LCP license that is unsupported,
\* not unlocked or wrongly unlocked, or that yields no chapter
failedIngestion(file) ==
    \/ ~file.readable
    \/ file.kind = "pdf" /\ file.numPages = 0
    \/ /\ file.kind = "epub"
       /\ \/ file.zip.rights /\ ~file.zip.lcpl
          \/ file.zip.lcpl /\ ~(file.zip.encKey /\ file.zip.passphrase
                                  /\ ~file.zip.decryptThrows)
          \/ ~file.zip.chapters

\* C22: a failed ingestion stops before loadArticle and leaves the loaded
\* content, identity, page state, bookmarks, highlights and narration state
\* as they were; a cancelled passphrase prompt shows no error toast, every
\* other failure shows one.
C22_FailedIngestionNoMutation ==
    [][(lastOp'.op = "loadFile" /\ failedIngestion(lastOp'.arg.file))
           => /\ lastOp'.arg.read.error # NoError
              /\ UNCHANGED <<readerVars, hlVars, audioVars, bmVars, tokenVars, flightVars, libVars>>
              /\ lastOp'.arg.read.notified
                    = (lastOp'.arg.read.error # "LCP_CANCELLED")]_vars

\* a wrong passphrase was reported while a document is open on its second
\* page
C22_Witness ==
    /\ lastOp.op = "loadFile"
    /\ lastOp.arg.read.error = "LCP_WRONG_PASSPHRASE"
    /\ ~readerHidden /\ currentContentHtml # 0 /\ currentPage = 1

\* the element the claimed order names for an internal href: the element
\* with the fragment id when the content holds it, else the element whose
\* data-epub-src is the file part, else the first chapter whose
\* data-epub-src is the file name or ends with "/" and the file name
claimedTarget(href) ==
    LET filePart == filePartOf(href)
        fragment == fragmentOf(href)
        fileName == lastSegment(filePart)
        hasId(i) == Elements[i].inContent /\ Elements[i].id = fragment
        hasSrc(i) == Elements[i].inContent /\ Elements[i].src = filePart
        hasName(i) == /\ Elements[i].inContent /\ Elements[i].chapter
                      /\ Elements[i].src # <<>>
                      /\ \/ Elements[i].src = fileName
                         \/ endsWith(Elements[i].src, <<"/">> \o fileName)
    IN  IF fragment # <<>> /\ \E i \in DOMAIN Elements : hasId(i)
        THEN CHOOSE i \in DOMAIN Elements : hasId(i)
        ELSE IF filePart # <<>> /\ \E i \in DOMAIN Elements : hasSrc(i)
        THEN CHOOSE i \in DOMAIN Elements : hasSrc(i) /\ \A j \in 1 .. i - 1 : ~hasSrc(j)
        ELSE IF filePart # <<>> /\ \E i \in DOMAIN Elements : hasName(i)
        THEN CHOOSE i \in DOMAIN Elements : hasName(i) /\ \A j \in 1 .. i - 1 : ~hasName(j)
        ELSE NoEl

\* floor(offsetLeft / (columnWidth + gap)) clamped to [0, totalPages - 1]
claimedPage(el) ==
    Max(0, Min(offsetLeftOf(el) \div (offsetWidth - PadLeft - PadRight + ColumnGap),
               totalPages - 1))

pageState == <<currentPage, totalPages, isFlipping>>

\* C23 as stated: a click on an internal link whose target resolves puts the
\* reader on the page of the target; a click on an external link or on a
\* link that resolves to nothing leaves the page state as it was.
C23_LinkFlipsToTarget ==
    [][lastOp'.op = "linkClick"
           => LET href == lastOp'.arg
              IN  IF isExternal(href) \/ claimedTarget(href) = NoEl
                  THEN UNCHANGED pageState
                  ELSE currentPage' = claimedPage(claimedTarget(href))]_vars

\* C23, amended: as above, except that a click made while a flip is in
\* flight leaves the page state as it was.
C23_LinkFlipsUnlessInFlight ==
    [][lastOp'.op = "linkClick"
           => LET href == lastOp'.arg
              IN  IF isExternal(href) \/ claimedTarget(href) = NoEl \/ isFlipping
                  THEN UNCHANGED pageState
                  ELSE /\ currentPage' = claimedPage(claimedTarget(href))
                       /\ UNCHANGED totalPages]_vars

\* a link with file part and fragment took the reader from the second page
\* to the page of the fragment's element
C23_Witness ==
    /\ lastOp.op = "linkClick"
    /\ lastOp.arg = <<"a.xhtml", "#", "s1">>
    /\ totalPages = 2 /\ currentPage = 0 /\ flipTarget = 0

\* the text the segmentation is applied to: the readable text with white
\* space collapsed and trimmed
normalizedText(el) == trim(collapseWhitespace(readableText(el)))

\* text is the sentences in their order, with nothing or one white space
\* between one sentence and the next
RECURSIVE tiles(_, _)
tiles(text, sents) ==
    IF sents = <<>> THEN text = <<>>
    ELSE LET s == Head(sents)
             rest == SubSeq(text, Len(s) + 1, Len(text))
         IN  /\ Len(s) <= Len(text)
             /\ SubSeq(text, 1, Len(s)) = s
             /\ \/ tiles(rest, Tail(sents))
                \/ /\ Tail(sents) # <<>> /\ rest # <<>> /\ isWhitespace(Head(rest))
                   /\ tiles(Tail(rest), Tail(sents))

endsSentence(s) == s # <<>> /\ isDelimiter(s[Len(s)])

\* C24: the sentences of a narration partition the normalized text of the
\* document: none is empty, each but the last ends with '.', '!' or '?',
\* and the normalized text is the sentences in order with at most white
\* space between them; the example text gives exactly three sentences,
\* each ending with its punctuation.
C24_SegmentationPartitions ==
    sentences # <<>>
        => /\ \A i \in 1 .. Len(sentences) : sentences[i] # <<>>
           /\ \A i \in 1 .. Len(sentences) - 1 : endsSentence(sentences[i])
           /\ tiles(normalizedText(dom), sentences)
           /\ normalizedText(dom) = Example
                  => /\ Len(sentences) = 3
                     /\ \A i \in 1 .. 3 : endsSentence(sentences[i])

\* the example is being narrated in its three sentences
C24_Witness ==
    /\ isPlaying
    /\ sentences = << <<"Hello", " ", "world", ".">>,
                      <<"How", " ", "are", " ", "you", "?">>,
                      <<"I'm", " ", "fine", "!">> >>

\* the sentences written one after the other with one white space between
RECURSIVE joinSentences(_)
joinSentences(sents) ==
    IF sents = <<>> THEN <<>>
    ELSE IF Tail(sents) = <<>> THEN Head(sents)
    ELSE Head(sents) \o <<" ">> \o joinSentences(Tail(sents))

\* C27: a boundary between two sentences lies only after a run of '.', '!'
\* or '?' that white space follows: each sentence but the last ends with
\* the run, and the normalized text is the sentences with one white space
\* between each two, so that "a.a" is one sentence.
C27_BoundaryOnlyBeforeWhitespace ==
    sentences # <<>>
        => /\ \A i \in 1 .. Len(sentences) - 1 : endsSentence(sentences[i])
           /\ joinSentences(sentences) = normalizedText(dom)

located(i) == sentenceRangeData.ranges[i] # NoSentenceRange

\* C26: the spans of the sentences that were located are in sentence order
\* and do not overlap: each starts at or after the end of the located span
\* before it; a sentence that was not located has the null span, its
\* utterance starts without any active-sentence mark, and it is spoken in
\* its turn: the completion of a sentence while playing speaks the next
\* sentence, located or not.
C26_SpansForwardOnly ==
    /\ [](sentenceRangeData.built
            => /\ Len(sentenceRangeData.ranges) = Len(sentences)
               /\ \A i \in 1 .. Len(sentences) :
                    located(i) => /\ 0 <= sentenceRangeData.ranges[i].start
                                  /\ sentenceRangeData.ranges[i].start
                                        < sentenceRangeData.ranges[i].end
               /\ \A i, j \in 1 .. Len(sentences) :
                    (i < j /\ located(i) /\ located(j))
                        => sentenceRangeData.ranges[i].end <= sentenceRangeData.ranges[j].start
               /\ \A i \in 1 .. Len(highlightElements) : located(highlightElements[i] + 1))
    /\ [][(lastOp'.op = "onstart" /\ ~located(Head(synthQueue).index + 1))
            => (highlightElements' = <<>> /\ audioMarksOf(dom') = <<>>)]_vars
    /\ [][(lastOp'.op = "onend" /\ lastOp'.arg # NoSpeech)
            => /\ \E i \in pendingEnds : lastOp'.arg = i + 1
               /\ synthQueue'[Len(synthQueue')].text = sentences[lastOp'.arg + 1]]_vars

\* the first sentence of the document with white space between its inline
\* elements was not located; it was spoken without a mark and the second
\* sentence, after it, carries the mark
C26_Witness ==
    /\ sentenceRangeData.built /\ Len(sentences) = 2
    /\ ~located(1) /\ located(2)
    /\ lastOp.op = "onstart" /\ currentSentenceIndex = 1
    /\ highlightElements = <<1>>
    /\ 0 \notin pendingEnds

\* the utterance of the sentence that was not located has started
C26_WitnessNullSpan ==
    /\ sentenceRangeData.built /\ ~located(1)
    /\ lastOp.op = "onstart" /\ currentSentenceIndex = 0
    /\ synthQueue # <<>> /\ Head(synthQueue).started /\ highlightElements = <<>>

\* C28: recomputes on resize are debounced: at most one resize timer is
\* pending at any time; a resize event leaves the page state alone and
\* leaves one timer, due 150 ms after the event; the timer that fires is the
\* one of the last event, it fires no earlier than 150 ms after that event
\* and leaves no timer behind, so that a burst is followed by one run of
\* paginate.  A change of font size or family puts paginate on the next
\* animation frame at once and does not touch the resize timer.
C28_ResizeDebounced ==
    /\ [](Len(resizeTimers) <= 1)
    /\ [][lastOp'.op = "resize"
            => /\ resizeTimers' = <<now + ResizeDelay>> /\ resizeTimeout'
               /\ UNCHANGED <<currentPage, totalPages, rafQueue>>]_vars
    /\ [][lastOp'.op = "resizeTimer"
            => /\ resizeTimers # <<>>
               /\ lastOp'.arg = resizeTimers[Len(resizeTimers)]
               /\ now >= lastOp'.arg
               /\ resizeTimers' = <<>> /\ ~resizeTimeout'
               /\ LET pg == paginate(currentPage, offsetWidth, scrollWidth)
                  IN  currentPage' = pg.currentPage /\ totalPages' = pg.totalPages]_vars
    /\ [][lastOp'.op = "font"
            => /\ rafQueue' = Append(rafQueue, CbPaginate)
               /\ UNCHANGED <<resizeTimers, resizeTimeout>>]_vars

\* the timer of a resize event at 75 ms fired at 225 ms and paginate found
\* two pages
C28_Witness ==
    /\ lastOp.op = "resizeTimer" /\ lastOp.arg = 1 + ResizeDelay /\ now = 1 + ResizeDelay
    /\ resizeTimers = <<>> /\ totalPages = 2

\* a font change while a resize timer is pending
C28_WitnessFont ==
    /\ lastOp.op = "font" /\ resizeTimers # <<>> /\ rafQueue # <<>>

\* C29: at most one utterance chain is live: the engine never holds more
\* than one utterance, the one of the current sentence, and a completion
\* callback speaks a sentence only when no other utterance is queued or
\* being spoken, so that the callback of a cancelled utterance starts
\* nothing once narration plays again.
C29_OneUtteranceChain ==
    /\ Len(synthQueue) <= 1
    /\ \A i \in 1 .. Len(synthQueue) : synthQueue[i].index = currentSentenceIndex

\* the text inside the marks of highlight id, in document order
RECURSIVE textOfMarks(_)
textOfMarks(marks) ==
    IF marks = <<>> THEN <<>> ELSE textContent(Head(marks)) \o textOfMarks(Tail(marks))
wrappedText(n, id) == textOfMarks(marksOf(n, id))

\* C30: after a re-render that follows creations and deletions of
\* highlights on a document, the text inside the marks of every stored
\* highlight is the highlight's stored selected_text.
C30_RerenderWrapsStoredText ==
    [][lastOp'.op = "refresh"
        => \A i \in 1 .. Len(highlights') :
             wrappedText(dom', highlights'[i].id) = highlights'[i].selected_text]_vars

\* C25: the DELETE of a removed article is deferred and an article whose
\* removal was undone is never deleted on the server: no article of the
\* list, restored by Undo or never removed, has had its DELETE sent, and
\* the article a pending delete timer is for has not had it sent either.
C25_UndoneNeverDeleted ==
    /\ articles \cap deleted = {}
    /\ \A i \in DOMAIN deleteTimers : deleteTimers[i].id \notin deleted

(***************************************************************************)
(* FONT SIZE RANGE                                                         *)
(***************************************************************************)
\* what localStorage 'reader-fs' may hold when the page loads (0 = nothing or
\* not a number) and what font_size an article record may carry (0 = none)
StoredFontSizes == {0, 12, 14, 18, 36, 40}

\* initReader(): the stored preference is taken only inside 14..36
restoreFontSize(savedFs, fs) ==
    IF savedFs # 0 /\ savedFs >= MinFontSize /\ savedFs <= MaxFontSize THEN savedFs ELSE fs

InitFont ==
    /\ currentPage = 0 /\ totalPages = 1 /\ isFlipping = FALSE
    /\ fontSize \in { restoreFontSize(savedFs, DefaultFontSize) : savedFs \in StoredFontSizes }
    /\ currentArticleId = NoId /\ currentContentHtml = 0 /\ currentHistoryEntryId = NoId
    /\ positionDirty = FALSE /\ positionTimer = FALSE /\ historyPositionTimer = FALSE
    /\ resizeTimeout = FALSE /\ resizeTimers = <<>> /\ flipTimers = 0 /\ rafQueue = <<>>
    /\ readerHidden = TRUE /\ contentCols = 0
    /\ histInFlight = {} /\ patchInFlight = {} /\ flipTarget = NoFlip
    /\ InitHL /\ InitAudio /\ InitBookmarks /\ InitToken /\ InitLibrary /\ InitFlight
    /\ lastOp = OtherOp

\* fontSizeDown() / fontSizeUp() over the whole range of the buttons
FontShrunk ==
    /\ fontSize > MinFontSize
    /\ FontChangeAs(fontSize - FontStep, [op |-> "font", arg |-> fontSize - FontStep])
FontGrown ==
    /\ fontSize < MaxFontSize
    /\ FontChangeAs(fontSize + FontStep, [op |-> "font", arg |-> fontSize + FontStep])

\* a library article opened with the font size its record carries
LoadStyled == LoadArticleOf({1}, {TRUE}, {0}, StoredFontSizes, {1, 2})

NextFont == FontShrunk \/ FontGrown \/ LoadStyled \/ FrameSignedOut
SpecFont == InitFont /\ [][NextFont]_vars

C38_IndexInRange ==
    IF sentences = <<>> THEN currentSentenceIndex = 0
    ELSE currentSentenceIndex >= 0 /\ currentSentenceIndex <= Len(sentences) - 1

\* a skip forward from the last sentence of a stopped narration stays there
C38_Witness ==
    /\ lastOp.op = "skipForward" /\ ~isPlaying /\ ~isPaused
    /\ Len(sentences) = 3 /\ currentSentenceIndex = Len(sentences) - 1
\* the end of the last utterance stops the narration at index 0
C38_WitnessEnd ==
    /\ lastOp.op = "onend" /\ ~isPlaying /\ sentences # <<>> /\ currentSentenceIndex = 0

(***************************************************************************)
(* PLAYBACK TO THE END                                                     *)
(***************************************************************************)
\* play pressed while narration is stopped
PlayClick == ~isPlaying /\ ~isPaused /\ PlayPauseClick

\* narration left to run: the user starts it, may stop it and start it again;
\* the engine starts and completes every utterance it is given and delivers
\* every end event
NextPlay ==
    \/ PlayClick \/ StopClick
    \/ UtteranceStart \/ UtteranceFinish \/ UtteranceEnd
    \/ LoadNarrated \/ FrameSignedOut
SpecPlay == Init /\ [][NextPlay]_vars
\* UtteranceStart is enabled exactly when the engine can start its head
startable == synthQueue # <<>> /\ ~Head(synthQueue).started /\ ~synthPaused
\* weak fairness of the three engine steps, that of UtteranceStart written
\* out with its enabling condition
FairPlay ==
    /\ SpecPlay
    /\ ([]<>~startable \/ []<><<UtteranceStart>>_vars)
    /\ WF_vars(UtteranceFinish) /\ WF_vars(UtteranceEnd)

\* a completion callback that speaks, speaks the successor of the sentence
\* that was current, with no other utterance in the engine
spokenInOrder ==
    (lastOp'.op = "onend" /\ lastOp'.arg # NoSpeech)
        => (lastOp'.arg = currentSentenceIndex + 1 /\ synthQueue = <<>>)

\* C39: playback terminates: once playing from resume index r with no
\* further command and every utterance completing, sentences r .. len-1 are
\* spoken in order, each exactly once, and narration then reaches the
\* stopped state with index 0
C39_PlaybackRunsToEnd ==
    /\ [][spokenInOrder]_vars
    /\ isPlaying ~> (~isPlaying /\ ~isPaused /\ currentSentenceIndex = 0 /\ synthQueue = <<>>)

(***************************************************************************)
(* NARRATION OVER INLINE ELEMENTS                                          *)
(***************************************************************************)
\* narration of a document whose sentence holds a whole inline element
\* (document 7), next to the three-sentence document
LoadInline == LoadArticleOf({3, 7}, {FALSE}, {0}, {0}, {1})
NextInline ==
    \/ LoadInline \/ FrameSignedOut \/ PlayPauseClick \/ StopClick \/ SkipForward
    \/ UtteranceStart \/ UtteranceFinish \/ UtteranceEnd
SpecInline == Init /\ [][NextInline]_vars

\* the element structure of a tree: its elements, without the text nodes
RECURSIVE elementsOf(_)
RECURSIVE elementsIn(_)
elementsIn(ks) ==
    IF ks = <<>> THEN <<>>
    ELSE (IF Head(ks).nodeType = 1 THEN << elementsOf(Head(ks)) >> ELSE <<>>)
         \o elementsIn(Tail(ks))
elementsOf(n) == <<n.nodeName, elementsIn(n.kids)>>

\* C36: narration highlighting is DOM-neutral: with the active-sentence mark
\* cleared the content root has the element structure it had before the
\* sentence was highlighted (inline elements inside the sentence are still
\* there), and at most one active-sentence mark exists at any time
C36_HighlightDomNeutral ==
    /\ Len(audioMarksOf(dom)) <= 1
    /\ audioMarksOf(dom) = <<>> => elementsOf(dom) = elementsOf(ParseHtml(currentContentHtml))

(***************************************************************************)
(* A DOCUMENT OPENED AFTER ANOTHER                                         *)
(***************************************************************************)
\* loadArticle is reached from the input view and from the library and
\* history lists, all shown with the reader view hidden
Reopen == readerHidden /\ LoadArticleOf({1}, {FALSE}, {0, 1, 2}, {0}, {1, 2, MaxCols})
\* a page flip with the post-load frames done
FlipShown == rafQueue = <<>> /\ (FlipNext \/ FlipPrev)

NextReopen == Reopen \/ FlipShown \/ ReleaseFlip \/ FrameSignedOut \/ ShowInput \/ ShowView
SpecReopen == Init /\ [][NextReopen]_vars

\* the saved positions with which loadArticle's inner callback is waiting in q
restoresPending(q) == { q[i].page : i \in { j \in 1 .. Len(q) : q[j].k = "loadInner" } }

\* C37: when a document is loaded without a saved position
\* (options.currentPage absent or <= 1), the reader shows page index 0 once
\* the post-load pagination has run, whatever page the previous document was
\* on and whichever way the reader was left
C37_LoadShowsFirstPage ==
    [][(/\ restoresPending(rafQueue) # {}
        /\ restoresPending(rafQueue') = {}
        /\ \A page \in restoresPending(rafQueue) : page <= 1)
       => currentPage' = 0]_vars

(***************************************************************************)
(* POSITION SAVES AND THE HISTORY ENTRY ACROSS DOCUMENTS                   *)
(***************************************************************************)
\* two documents, saved to the library or not, opened one after the other by
\* a signed-in or signed-out user
LoadLogged == LoadArticleOf({1, 3}, BOOLEAN, {0}, {0}, {2})
NextPatch ==
    \/ FlipNext \/ FlipPrev \/ ReleaseFlip
    \/ PositionTimerFire \/ PatchResponse \/ HistoryTimerFire \/ HistoryResponse
    \/ HandleSave \/ LoadLogged \/ Frame \/ ShowInput
SpecPatch == Init /\ [][NextPatch]_vars

\* the step is positionTimer's callback / historyPositionTimer's callback
\* (loadArticle, which clears the timers, registers animation frames)
positionTimerFires == positionTimer /\ ~positionTimer' /\ patchInFlight' # patchInFlight
historyTimerFires == historyPositionTimer /\ ~historyPositionTimer' /\ rafQueue' = rafQueue

\* C33: every debounced position PATCH is addressed to the library article
\* or history entry that was current when the triggering flip happened:
\* after unsave, loadArticle or showInput no pending timer fires a PATCH
\* with a null id or with the id of a different document
C33_PatchAddressedToCurrent ==
    [][/\ positionTimerFires =>
             (currentArticleId # NoId /\ currentArticleId = currentContentHtml)
       /\ historyTimerFires =>
             (currentHistoryEntryId # NoId /\ currentHistoryEntryId = currentContentHtml)]_vars

\* C34: currentHistoryEntryId, whenever not null, is the id of the history
\* entry logged for the currently loaded document: a POST /api/history
\* response arriving after another loadArticle or after showInput does not
\* set it
C34_HistoryEntryOfCurrent ==
    currentHistoryEntryId # NoId => currentHistoryEntryId = currentContentHtml

(***************************************************************************)
(* THE SAVE BUTTON WITH THE SERVER'S ANSWER PENDING                        *)
(***************************************************************************)
MaxSaves == 1        \* handleSave calls awaiting the server at one time

\* click on #saveBtn by a signed-in user, up to the await of handleSave:
\* the DELETE of the current article, or the POST of the current content
SaveClick ==
    /\ ~readerHidden /\ currentContentHtml # 0
    /\ Cardinality(saveInFlight) < MaxSaves
    /\ saveInFlight' = saveInFlight \cup
           {[unsave |-> currentArticleId # NoId, doc |-> currentContentHtml]}
    /\ lastOp' = [op |-> "handleSave", arg |-> 0]
    /\ UNCHANGED <<readerVars, hlVars, audioVars, bmVars, tokenVars, hlLoads, hlSaves, libVars>>

\* handleSave resumes with the server's answer:
\* currentArticleId = null after the DELETE, = result.article.id after the POST
SaveResponse ==
    /\ \E m \in saveInFlight, ok \in BOOLEAN :
         /\ saveInFlight' = saveInFlight \ {m}
         /\ currentArticleId' = IF ~ok THEN currentArticleId
                                ELSE IF m.unsave THEN NoId ELSE m.doc
         /\ lastOp' = [op |-> "handleSave", arg |-> m.doc]
    /\ UNCHANGED <<currentPage, totalPages, isFlipping, fontSize, currentContentHtml,
                   currentHistoryEntryId, positionDirty, positionTimer,
                   historyPositionTimer, resizeTimeout, resizeTimers, flipTimers, rafQueue,
                   readerHidden, contentCols, histInFlight, patchInFlight, flipTarget,
                   hlVars, audioVars, bmVars, tokenVars, hlLoads, hlSaves, libVars>>

\* two documents, in the library or not, opened one after the other
LoadListed == LoadArticleOf({1, 3}, BOOLEAN, {0}, {0}, {1})
NextSaves == SaveClick \/ SaveResponse \/ LoadListed \/ FrameSignedOut \/ ShowInput
SpecSaves == Init /\ [][NextSaves]_vars

\* C35: currentArticleId, whenever not null, identifies the library article
\* holding the currently loaded content: a save or unsave started for one
\* document and completing after a different document was loaded or the
\* reader was left does not change the identity of the new session
C35_ArticleIdOfCurrent ==
    currentArticleId # NoId => currentArticleId = currentContentHtml

(***************************************************************************)
(* THE HIGHLIGHT MANAGER WITH THE SERVER'S ANSWER PENDING                  *)
(* (the manager holds an article id and the user is signed in, so          *)
(* loadHighlights and saveHighlight await the server)                      *)
(***************************************************************************)
MaxHlCalls == 2      \* calls of one kind awaiting the server at one time

\* loadHighlights(articleId) up to its await
LoadHighlightsStart ==
    /\ pendingRange = NoRange
    /\ Cardinality(hlLoads) < MaxHlCalls
    /\ \E articleId \in {1, 3} :
         /\ hlArticleId' = articleId
         /\ hlLoads' = hlLoads \cup {articleId}
         /\ lastOp' = [op |-> "loadHighlights", arg |-> articleId]
    /\ highlights' = <<>>
    /\ UNCHANGED <<dom, pendingRange, hlStore, nextHlId, readerVars, audioVars, bmVars,
                   tokenVars, saveInFlight, hlSaves, libVars>>

\* loadHighlights(articleId) resumes, the popup closed: with the server's
\* list for articleId (none, or what the mirror holds), or after a failed
\* request with the mirror under getStorageKey(); then renderAllHighlights()
LoadHighlightsResponse ==
    /\ pendingRange = NoRange
    /\ \E articleId \in hlLoads, ok \in BOOLEAN :
         \E data \in (IF ok THEN {<<>>, hlStore[articleId]} ELSE {<<>>}) :
            LET list == IF ok THEN data
                        ELSE IF getStorageKey # NoId THEN hlStore[getStorageKey]
                        ELSE highlights
            IN  /\ hlLoads' = hlLoads \ {articleId}
                /\ highlights' = list
                /\ dom' = renderAllHighlights(dom, list)
                /\ lastOp' = [op |-> "highlightsLoaded", arg |-> articleId]
    /\ UNCHANGED <<pendingRange, hlArticleId, hlStore, nextHlId, readerVars, audioVars,
                   bmVars, tokenVars, saveInFlight, hlSaves, libVars>>

\* clearHighlights() of the highlight manager
ClearHighlights ==
    /\ highlights' = <<>>
    /\ hlArticleId' = NoId
    /\ pendingRange' = NoRange
    /\ lastOp' = [op |-> "clearHighlights", arg |-> 0]
    /\ UNCHANGED <<dom, hlStore, nextHlId, readerVars, audioVars, bmVars,
                   tokenVars, flightVars, libVars>>

\* handleColorClick(color) up to `await saveHighlight(data, color)`: the
\* range is serialized, the request carries { ...data, color }
ColorClickStart ==
    /\ pendingRange # NoRange /\ hlArticleId # NoId
    /\ Len(hlSaves) < MaxHlCalls
    /\ \E color \in Colors :
         LET data == serializeRange(dom, pendingRange)
         IN  hlSaves' = Append(hlSaves,
                               [color |-> color,
                                start_xpath |-> data.start_xpath,
                                start_offset |-> data.start_offset,
                                end_xpath |-> data.end_xpath,
                                end_offset |-> data.end_offset,
                                selected_text |-> data.selected_text])
    /\ lastOp' = [op |-> "colorClick", arg |-> 0]
    /\ UNCHANGED <<hlVars, readerVars, audioVars, bmVars, tokenVars, saveInFlight, hlLoads,
                   libVars>>

\* saveHighlight resumes with the server's answer and handleColorClick after
\* it: highlights.push(hlData), localStorage.setItem, then
\* applyHighlightMarks(pendingRange, color, hl.id) and hidePopup() with the
\* pendingRange of that moment
ColorClickResume ==
    /\ nextHlId <= MaxHighlights
    /\ \E i \in 1 .. Len(hlSaves) :
         LET req == hlSaves[i]
             hlData == [color |-> req.color, id |-> nextHlId,
                        start_xpath |-> req.start_xpath,
                        start_offset |-> req.start_offset,
                        end_xpath |-> req.end_xpath,
                        end_offset |-> req.end_offset,
                        selected_text |-> req.selected_text]
         IN  /\ hlSaves' = SubSeq(hlSaves, 1, i - 1) \o SubSeq(hlSaves, i + 1, Len(hlSaves))
             /\ highlights' = Append(highlights, hlData)
             /\ nextHlId' = nextHlId + 1
             /\ \E throws \in setItemThrows :
                  IF throws
                  THEN /\ UNCHANGED <<hlStore, dom, pendingRange>>
                       /\ lastOp' = [op |-> "colorSaved", arg |-> 1]
                  ELSE /\ hlStore' = setItem(Append(highlights, hlData))
                       /\ dom' = applyHighlightMarks(dom, pendingRange, req.color, nextHlId)
                       /\ pendingRange' = NoRange
                       /\ lastOp' = [op |-> "colorSaved", arg |-> 0]
    /\ UNCHANGED <<hlArticleId, readerVars, audioVars, bmVars, tokenVars, saveInFlight,
                   hlLoads, libVars>>

\* the document is opened once
OpenContent == readerHidden /\ LoadContent

\* handleSelectionEnd() after a double click on a word or a drag over words
SelectWords == SelectionEndOf(WordSelections(dom) \cup {NoRange})

\* colour picks on the document of a library article
NextPick ==
    \/ SelectWords \/ MouseDown \/ ColorClickStart \/ ColorClickResume
    \/ LoadArticleHighlights \/ OpenContent \/ FrameSignedOut
SpecPick == Init /\ [][NextPick]_vars

\* the highlights of two articles loaded one after the other
NextLoads ==
    \/ SelectWords \/ PickColor
    \/ LoadHighlightsStart \/ LoadHighlightsResponse \/ ClearHighlights
    \/ OpenContent \/ FrameSignedOut
SpecLoads == Init /\ [][NextLoads]_vars

\* the anchor serialized into a highlight or a request
anchorOf(h) == <<h.start_xpath, h.start_offset, h.end_xpath, h.end_offset>>

\* C31: every highlight stored by a colour pick has its marks applied to
\* exactly the range serialized into it: with the popup dismissed, the
\* selection replaced or the colour clicked again while saveHighlight
\* awaits, no highlight ends up stored without marks, marked over another
\* range than its anchor, or stored twice for one selection: no second
\* request for the same anchor is still awaiting (the picks whose write to
\* local storage returns: arg 0)
C31_MarksOverSerializedRange ==
    [][(Len(hlSaves') < Len(hlSaves) /\ lastOp'.arg = 0) =>
         LET h == highlights'[Len(highlights')]
         IN  /\ marksOf(dom', h.id) # <<>>
             /\ wrappedText(dom', h.id) = h.selected_text
             /\ \A j \in 1 .. Len(hlSaves') : anchorOf(hlSaves'[j]) # anchorOf(h)]_vars

\* the highlights of a list
listed(list) == { list[i] : i \in 1 .. Len(list) }

\* C32: the in-memory highlight list always belongs to the article named by
\* currentArticleId: the late response of a loadHighlights(A) overtaken by
\* loadHighlights(B) or clearHighlights is neither installed as the list
\* nor rendered into the current document, and never written to B's
\* local-storage key by a later save: no highlight is stored under the
\* keys of two articles
C32_ListOfCurrentArticle ==
    [][/\ \A articleId \in hlLoads \ hlLoads' :
            articleId # hlArticleId => (highlights' = highlights /\ dom' = dom)
       /\ \A key \in Contents, other \in Contents :
            key # other => listed(hlStore'[key]) \cap listed(hlStore'[other]) = {}]_vars

====
